---- MODULE Spec2Model ----
(* Session orchestration and topic-state engine of the MindSpark tutor:       *)
(* the TopicDatabase singleton, the AgentOrchestrator pipeline and the        *)
(* StudySession component that drives them (handleSendMessage, initSession).  *)
EXTENDS Integers, Sequences, FiniteSets, TLC

\* ---------------------------------------------------------------- bounds
MaxTurns == 2
MaxSessions == 2
MaxCalls == 4

Sessions == 1..MaxSessions

\* ------------------------------------------------------- values and names
\* Topic names as the user or the classifier may spell them; two of them
\* differ only in case.
Names == {"History", "history", "Biology"}
MainNames == {"History", "Biology"}
NoName == ""
NoId == 0

\* String.prototype.toLowerCase on the names of the model.
toLowerCase(n) ==
  CASE n = "History" -> "history"
    [] n = "Biology" -> "biology"
    [] n = "Chemistry" -> "chemistry"
    [] OTHER -> n

\* The notebook texts of the model: empty, white space only, short notes, and
\* notes longer than the part of them the Notebook agent passes on.
NotebookLimit == 20000
NotebookTexts == {"", " ", "notes", "long notes"}

\* String.prototype.trim on the notebook texts of the model.
trim(txt) == IF txt = " " THEN "" ELSE txt

\* String.prototype.length on the notebook texts of the model.
length(txt) ==
  CASE txt = "" -> 0
    [] txt = " " -> 1
    [] txt = "notes" -> 5
    [] OTHER -> NotebookLimit + 1

\* txt.substring(0, n): the leading characters of txt, at most n of them.
substringAll(txt, n) == [of |-> txt, chars |-> length(txt)]

substring(txt, n) ==
  [of |-> txt, chars |-> IF length(txt) < n THEN length(txt) ELSE n]

AgentModes == {"TUTOR", "RESEARCH", "NOTEBOOK"}

\* ------------------------------------------------------------ TopicDatabase
VARIABLES topics, currentTopicId, mainTopicName, sessionState, nextId, clock

\* The topic a createTopic call builds.
NewTopic(id, name, isMain, now) ==
  [id |-> id, name |-> name, timestamp |-> now, messages |-> <<>>,
   flashcards |-> <<>>, quizzes |-> <<>>, examQuestions |-> <<>>,
   isMainTopic |-> isMain, notebookContent |-> "", knowledgeBase |-> <<>>]

TopicIds(ts) == {ts[i].id : i \in DOMAIN ts}

has(ts, id) == id \in TopicIds(ts)

\* Map.get: the topic with this id (only used under has).
get(ts, id) == ts[CHOOSE i \in DOMAIN ts : ts[i].id = id]

\* Array.find over Map.values(): the first topic, in insertion order, whose
\* lower-cased name equals the lower-cased argument; NoId when there is none.
getTopicByNameExact(ts, name) ==
  LET hits == {i \in DOMAIN ts : ts[i].name = name}
  IN IF hits = {} THEN NoId
     ELSE ts[CHOOSE i \in hits : \A j \in hits : i <= j].id

getTopicByName(ts, name) ==
  LET hits == {i \in DOMAIN ts : toLowerCase(ts[i].name) = toLowerCase(name)}
  IN IF hits = {} THEN NoId
     ELSE ts[CHOOSE i \in hits : \A j \in hits : i <= j].id

\* createTopic: the store after the call ...
createTopicNoCheck(ts, name, isMain, id, now) ==
  Append(ts, NewTopic(id, name, isMain, now))

createTopicRetags(ts, name, isMain, id, now) ==
  IF getTopicByName(ts, name) # NoId
  THEN [i \in DOMAIN ts |->
          IF ts[i].id = getTopicByName(ts, name)
          THEN [ts[i] EXCEPT !.isMainTopic = isMain] ELSE ts[i]]
  ELSE Append(ts, NewTopic(id, name, isMain, now))

createTopic(ts, name, isMain, id, now) ==
  IF getTopicByName(ts, name) # NoId THEN ts
  ELSE Append(ts, NewTopic(id, name, isMain, now))

\* ... and the id of the topic it returns.
createTopicId(ts, name, id) ==
  IF getTopicByName(ts, name) # NoId THEN getTopicByName(ts, name) ELSE id

setCurrentTopicStays(ts, cur, id) == cur

setCurrentTopicAny(ts, cur, id) == id

setCurrentTopic(ts, cur, id) == IF has(ts, id) THEN id ELSE cur

\* getCurrentTopic()?.id
getCurrentTopicId(ts, cur) == IF cur # NoId /\ has(ts, cur) THEN cur ELSE NoId

addMessageToTopicDropped(ts, id, msg) == ts

addMessageToTopicTwice(ts, id, msg) ==
  [i \in DOMAIN ts |->
     IF ts[i].id = id THEN [ts[i] EXCEPT !.messages = Append(Append(@, msg), msg)]
     ELSE ts[i]]

addMessageToTopicFront(ts, id, msg) ==
  [i \in DOMAIN ts |->
     IF ts[i].id = id THEN [ts[i] EXCEPT !.messages = <<msg>> \o @] ELSE ts[i]]

addMessageToTopic(ts, id, msg) ==
  [i \in DOMAIN ts |->
     IF ts[i].id = id THEN [ts[i] EXCEPT !.messages = Append(@, msg)] ELSE ts[i]]

addFlashcardsToTopicFront(ts, id, cards) ==
  [i \in DOMAIN ts |->
     IF ts[i].id = id THEN [ts[i] EXCEPT !.flashcards = cards \o @] ELSE ts[i]]

addFlashcardsToTopic(ts, id, cards) ==
  [i \in DOMAIN ts |->
     IF ts[i].id = id THEN [ts[i] EXCEPT !.flashcards = @ \o cards] ELSE ts[i]]

addQuizQuestionsToTopic(ts, id, qs) ==
  [i \in DOMAIN ts |->
     IF ts[i].id = id THEN [ts[i] EXCEPT !.quizzes = @ \o qs] ELSE ts[i]]

updateNotebookContent(ts, id, content) ==
  [i \in DOMAIN ts |->
     IF ts[i].id = id THEN [ts[i] EXCEPT !.notebookContent = content] ELSE ts[i]]

\* getAllTopics: the comparator handed to Array.prototype.sort ...
compareTopicsNoMain(a, b) == a.timestamp - b.timestamp

compareTopics(a, b) ==
  IF a.isMainTopic THEN -1
  ELSE IF b.isMainTopic THEN 1
  ELSE a.timestamp - b.timestamp

\* ... and the sort, which is stable: an element moves in front of those that
\* the comparator puts after it and of no others.
RECURSIVE insertSorted(_, _)
insertSorted(sorted, x) ==
  IF sorted = <<>> THEN <<x>>
  ELSE IF compareTopics(sorted[Len(sorted)], x) > 0
       THEN Append(insertSorted(SubSeq(sorted, 1, Len(sorted) - 1), x),
                   sorted[Len(sorted)])
       ELSE Append(sorted, x)

RECURSIVE sortTopics(_)
sortTopics(ts) ==
  IF ts = <<>> THEN <<>>
  ELSE insertSorted(sortTopics(SubSeq(ts, 1, Len(ts) - 1)), ts[Len(ts)])

\* The orders of the topic ids that getAllTopics may return. With more than
\* one main topic the comparator is not a consistent ordering and the order
\* JavaScript returns is implementation-defined: any order of the topics.
Orders(ts) ==
  {p \in [DOMAIN ts -> TopicIds(ts)] : \A id \in TopicIds(ts) : \E i \in DOMAIN ts : p[i] = id}

getAllTopics(ts) ==
  IF Cardinality({i \in DOMAIN ts : ts[i].isMainTopic}) <= 1
  THEN {[i \in DOMAIN ts |-> sortTopics(ts)[i].id]}
  ELSE Orders(ts)

\* knowledgeBase is a string, kept as the sequence of the pieces it was
\* concatenated from; the empty string is <<>>. appendKnowledge does
\* topic.knowledgeBase += `\n- ${summary}`.
Separator == "\n- "

appendKnowledgeReplace(ts, id, summary) ==
  [i \in DOMAIN ts |->
     IF ts[i].id = id THEN [ts[i] EXCEPT !.knowledgeBase = <<Separator, summary>>]
     ELSE ts[i]]

appendKnowledge(ts, id, summary) ==
  [i \in DOMAIN ts |->
     IF ts[i].id = id THEN [ts[i] EXCEPT !.knowledgeBase = @ \o <<Separator, summary>>]
     ELSE ts[i]]

setExamQuestionsForTopic(ts, id, qs) ==
  [i \in DOMAIN ts |->
     IF ts[i].id = id THEN [ts[i] EXCEPT !.examQuestions = qs] ELSE ts[i]]

\* The readers: topics.get(id)?.field || default.
getKnowledgeBase(ts, id) == IF has(ts, id) THEN get(ts, id).knowledgeBase ELSE <<>>

getExamQuestionsForTopic(ts, id) ==
  IF has(ts, id) THEN get(ts, id).examQuestions ELSE <<>>

getTopicContent(ts, id) ==
  IF has(ts, id)
  THEN [flashcards |-> get(ts, id).flashcards, quizzes |-> get(ts, id).quizzes,
        examQuestions |-> get(ts, id).examQuestions,
        notebookContent |-> get(ts, id).notebookContent,
        knowledgeBase |-> get(ts, id).knowledgeBase]
  ELSE [flashcards |-> <<>>, quizzes |-> <<>>, examQuestions |-> <<>>,
        notebookContent |-> "", knowledgeBase |-> <<>>]

\* reset: this.sessionState = null.
resetSessionStateKept(old) == old

resetSessionState(old) == <<>>

\* The snapshots handed to setSessionState: they differ in every field.
SessionStates ==
  {[currentTopicName |-> n, agentMode |-> m] :
     n \in MainNames, m \in {"TUTOR", "NOTEBOOK"}}

setSessionStateMerged(old, state) ==
  IF old = <<>> THEN <<state>>
  ELSE <<[state EXCEPT !.agentMode = old[1].agentMode]>>

\* this.sessionState = state
setSessionState(old, state) == <<state>>

\* return this.sessionState: the snapshot, or none (null).
getSessionState(stored) == stored

\* reset: the topics after topics.clear() and createTopic(mainTopicName, true).
resetTopicsNotMain(name, id, now) == createTopic(<<>>, name, FALSE, id, now)

resetTopicsCleared(name, id, now) == <<>>

resetTopics(name, id, now) == createTopic(<<>>, name, TRUE, id, now)

\* ------------------------------------------------------------ StudySession
VARIABLES session, mounted, turn, jobs, nTurns, nSessions, lastCall

\* The state of the views: the slides of each StudySession, the Flashcards
\* and Quiz components, the ExamMode component and the lock of the App.
VARIABLES lesson, flashcardsView, quizView, examMode, isExamActive

viewVars == <<lesson, flashcardsView, quizView, examMode, isExamActive>>

vars == <<topics, currentTopicId, mainTopicName, sessionState, nextId, clock,
          session, mounted, turn, jobs, nTurns, nSessions, lastCall,
          lesson, flashcardsView, quizView, examMode, isExamActive>>

storeVars == <<topics, currentTopicId, mainTopicName, sessionState, nextId, clock>>

NoSession ==
  [status |-> "unborn", topic |-> NoName, currentTopicName |-> NoName,
   agentMode |-> "TUTOR", isChatLoading |-> FALSE, orch |-> NoName]

NoTurn ==
  [pc |-> "none", id |-> 0, mode |-> "TUTOR", closureTopicName |-> NoName,
   preShiftTopicId |-> NoId, classArg |-> NoName, classifier |-> "none",
   analysis |-> [isNewTopic |-> FALSE, topicName |-> NoName, threw |-> FALSE],
   workingTopicName |-> NoName, systemInjection |-> FALSE,
   childAgentOutput |-> "none", notes |-> substring("", 0),
   notebookTopicId |-> NoId, research |-> "none",
   sources |-> <<>>, synth |-> "none", enrichIssued |-> FALSE,
   degraded |-> FALSE, detected |-> FALSE, createdId |-> NoId,
   postShiftTopicId |-> NoId, outcome |-> "none"]

NoCall ==
  [n |-> 0, op |-> "none", name |-> NoName, id |-> NoId, ret |-> NoId,
   added |-> FALSE, value |-> <<>>]

\* The slides of a StudySession: slides beyond the first one, the slide on
\* screen, and where handleNextSlide stands.
NoLesson ==
  [generated |-> 0, currentSlideIndex |-> 0, generatingNext |-> FALSE,
   pc |-> "none", requests |-> 0]

\* Flashcards: what it shows and the index updates its timers still hold.
NoFlashcards ==
  [mounted |-> FALSE, activeTopicId |-> NoId, availableTopics |-> {},
   cardsRef |-> NoId, cards |-> <<>>, currentIndex |-> 0, loading |-> FALSE,
   error |-> FALSE, timers |-> <<>>, pending |-> {}]

\* Quiz: what it shows and how far the learner is.
NoQuiz ==
  [mounted |-> FALSE, activeTopicId |-> NoId, availableTopics |-> {},
   questionsRef |-> NoId, questions |-> <<>>, currentQIndex |-> 0,
   isAnswered |-> FALSE, score |-> 0, quizCompleted |-> FALSE, loading |-> FALSE,
   error |-> FALSE, pending |-> {}]

\* ExamMode: its step and what it waits for.
NoExamMode ==
  [mounted |-> FALSE, step |-> "SELECT_TOPIC", selectedTopicId |-> NoId,
   availableTopics |-> {}, loading |-> FALSE, analyzingResults |-> FALSE,
   feedback |-> FALSE]

Init ==
  /\ topics = <<>>
  /\ currentTopicId = NoId
  /\ mainTopicName = NoName
  /\ sessionState = <<>>
  /\ nextId = 1
  /\ clock = 0
  /\ session = [s \in Sessions |-> NoSession]
  /\ mounted = 0
  /\ turn = [s \in Sessions |-> NoTurn]
  /\ jobs = {}
  /\ nTurns = 0
  /\ nSessions = 0
  /\ lastCall = NoCall
  /\ lesson = [s \in Sessions |-> NoLesson]
  /\ flashcardsView = NoFlashcards
  /\ quizView = NoQuiz
  /\ examMode = NoExamMode
  /\ isExamActive = FALSE

\* A continuation of an awaited async call that already returned runs in
\* the same macrotask: nothing else runs while a turn is between the return of
\* processUserQuery and the rest of handleSendMessage.
MicrotaskPending == \E s \in Sessions : turn[s].pc = "returned"

\* The snapshot the save effect hands to setSessionState.
SavedState(sr) ==
  <<[currentTopicName |-> sr.currentTopicName, agentMode |-> sr.agentMode]>>

\* Date.now() at a createTopic call: later than at every earlier call.
Nows == {clock + 1}

\* An unmounted StudySession instance is never mounted again: its React state
\* is unobservable, only an in-flight turn still uses its orchestrator.
DeadSession ==
  [status |-> "dead", topic |-> NoName, currentTopicName |-> NoName,
   agentMode |-> "TUTOR", isChatLoading |-> FALSE, orch |-> NoName]

InFlight(t) == t.pc \notin {"none", "done"}

\* What stays of a turn once handleSendMessage has finished: its locals are
\* gone, the record keeps what the turn did.
Finished(t, outcome, detected, created, post) ==
  [NoTurn EXCEPT !.pc = "done", !.id = t.id, !.outcome = outcome,
                 !.preShiftTopicId = t.preShiftTopicId, !.synth = t.synth,
                 !.degraded = (t.classifier = "failed" /\ t.research = "failed"),
                 !.detected = detected, !.createdId = created,
                 !.postShiftTopicId = post]

\* The StudySession leaves the screen (mode switch or back to the topic input).
Unmount ==
  /\ ~MicrotaskPending
  /\ mounted # 0
  /\ mounted' = 0
  /\ session' = [session EXCEPT ![mounted] =
                   IF InFlight(turn[mounted]) \/ session[mounted].status = "loading"
                   THEN @ ELSE DeadSession]
  /\ UNCHANGED <<storeVars, turn, jobs, nTurns, nSessions, lastCall>>
  /\ UNCHANGED viewVars

\* initSession of a freshly mounted StudySession for topic T: restore the saved
\* session, or reset the store and wait for the first slide.
Mount(T, now) ==
  /\ ~MicrotaskPending
  /\ mounted = 0
  /\ nSessions < MaxSessions
  /\ LET s == nSessions + 1 IN
     /\ nSessions' = s
     /\ mounted' = s
     /\ IF mainTopicName = T /\ sessionState # <<>>
        THEN LET saved == sessionState[1]
                 sr == [status |-> "ready", topic |-> T,
                        currentTopicName |-> saved.currentTopicName,
                        agentMode |-> saved.agentMode, isChatLoading |-> FALSE,
                        orch |-> saved.currentTopicName]
             IN /\ session' = [session EXCEPT ![s] = sr]
                /\ sessionState' = SavedState(sr)
                /\ UNCHANGED <<topics, currentTopicId, mainTopicName, nextId, clock>>
        ELSE    /\ topics' = resetTopics(T, nextId, now)
                /\ mainTopicName' = T
                /\ sessionState' = resetSessionState(sessionState)
                /\ currentTopicId' = createTopicId(<<>>, T, nextId)
                /\ nextId' = nextId + 1
                /\ clock' = now
                /\ session' = [session EXCEPT ![s] =
                     [status |-> "loading", topic |-> T, currentTopicName |-> T,
                      agentMode |-> "TUTOR", isChatLoading |-> FALSE,
                      orch |-> NoName]]
  /\ UNCHANGED <<turn, jobs, nTurns, lastCall>>
  /\ UNCHANGED viewVars

IntroMsg == [role |-> "model", turn |-> 0, sources |-> <<>>]

\* getInitialSlide resolved: the orchestrator is created and the intro message
\* is stored under the current topic (only while the session is still mounted).
SlideLoaded(s) ==
  /\ ~MicrotaskPending
  /\ session[s].status = "loading"
  /\ IF mounted = s
     THEN LET cur == getCurrentTopicId(topics, currentTopicId)
              sr == [session[s] EXCEPT !.status = "ready", !.orch = session[s].topic]
          IN IF cur = NoId
             THEN /\ session' = [session EXCEPT ![s] =
                                   [sr EXCEPT !.status = "failed"]]
                  /\ UNCHANGED <<topics, sessionState>>
             ELSE /\ session' = [session EXCEPT ![s] = sr]
                  /\ topics' = addMessageToTopic(topics, cur, IntroMsg)
                  /\ sessionState' = SavedState(sr)
     ELSE /\ session' = [session EXCEPT ![s] = DeadSession]
          /\ UNCHANGED <<topics, sessionState>>
  /\ UNCHANGED <<currentTopicId, mainTopicName, nextId, clock, mounted, turn,
                 jobs, nTurns, nSessions, lastCall>>
  /\ UNCHANGED viewVars

\* getInitialSlide rejected: the session shows its error and never gets a chat.
SlideFailed(s) ==
  /\ ~MicrotaskPending
  /\ session[s].status = "loading"
  /\ session' = [session EXCEPT ![s] =
                   IF mounted = s THEN [@ EXCEPT !.status = "failed"]
                   ELSE DeadSession]
  /\ UNCHANGED <<storeVars, mounted, turn, jobs, nTurns, nSessions, lastCall>>
  /\ UNCHANGED viewVars

\* The agent mode tabs.
SetAgentMode(m) ==
  /\ ~MicrotaskPending
  /\ mounted # 0
  /\ session[mounted].status = "ready"
  /\ session[mounted].agentMode # m
  /\ LET sr == [session[mounted] EXCEPT !.agentMode = m] IN
     /\ session' = [session EXCEPT ![mounted] = sr]
     /\ sessionState' = SavedState(sr)
  /\ UNCHANGED <<topics, currentTopicId, mainTopicName, nextId, clock, mounted,
                 turn, jobs, nTurns, nSessions, lastCall>>
  /\ UNCHANGED viewVars

\* The notebook text area (shown in NOTEBOOK mode) writes to the current topic.
handleNotebookUpdate(content) ==
  /\ ~MicrotaskPending
  /\ mounted # 0
  /\ session[mounted].status = "ready"
  /\ session[mounted].agentMode = "NOTEBOOK"
  /\ LET cur == getCurrentTopicId(topics, currentTopicId) IN
     /\ cur # NoId
     /\ get(topics, cur).notebookContent # content
     /\ topics' = updateNotebookContent(topics, cur, content)
  /\ UNCHANGED <<currentTopicId, mainTopicName, sessionState, nextId, clock,
                 session, mounted, turn, jobs, nTurns, nSessions, lastCall>>
  /\ UNCHANGED viewVars

\* ------------------------------------------------------- the turn pipeline
\* An optional field of a message: <<>> when the field is absent, <<v>> when it
\* holds v.
Absent == <<>>

UserMsg(k) == [role |-> "user", turn |-> k, sources |-> Absent]

\* The sources field of the response message: sources.length > 0 ? sources :
\* undefined.
responseSourcesAlways(srcs) == <<srcs>>

responseSources(srcs) == IF Len(srcs) > 0 THEN <<srcs>> ELSE Absent

ResponseMsg(k, srcs) ==
  [role |-> "model", turn |-> k, sources |-> responseSources(srcs)]

\* The chat submit control and the early return of handleSendMessage.
CanSubmitWhileLoading(sr) == sr.status = "ready" /\ sr.orch # NoName

CanSubmit(sr) == sr.status = "ready" /\ sr.orch # NoName /\ ~sr.isChatLoading

\* handleSendMessage up to its first await: the learner's message goes to the
\* topic that is current now, and processUserQuery issues the classifier call.
handleSendMessage ==
  /\ ~MicrotaskPending
  /\ mounted # 0
  /\ nTurns < MaxTurns
  /\ CanSubmit(session[mounted])
  /\ LET s == mounted
         sr == [session[s] EXCEPT !.isChatLoading = TRUE]
         k == nTurns + 1
         pre == getCurrentTopicId(topics, currentTopicId)
     IN /\ nTurns' = k
        /\ topics' = IF pre # NoId THEN addMessageToTopic(topics, pre, UserMsg(k))
                     ELSE topics
        /\ session' = [session EXCEPT ![s] = sr]
        /\ sessionState' = SavedState(sr)
        /\ turn' = [turn EXCEPT ![s] =
             [NoTurn EXCEPT !.pc = "classify", !.id = k,
                            !.mode = session[s].agentMode,
                            !.closureTopicName = session[s].currentTopicName,
                            !.preShiftTopicId = pre,
                            !.classArg = session[s].orch]]
  /\ UNCHANGED <<currentTopicId, mainTopicName, nextId, clock, mounted, jobs,
                 nSessions, lastCall>>
  /\ UNCHANGED viewVars

\* analyzeTopicShift: what it returns for each outcome of the underlying call
\* (threw: the call completes with an exception instead of a value).
ClassifierOutcomes == {"parsed", "empty", "failed"}

analyzeTopicShiftThrows(currentTopic, kind, isNew, name) ==
  CASE kind = "parsed" -> [isNewTopic |-> isNew, topicName |-> name, threw |-> FALSE]
    [] kind = "empty" -> [isNewTopic |-> FALSE, topicName |-> NoName, threw |-> FALSE]
    [] OTHER -> [isNewTopic |-> FALSE, topicName |-> currentTopic, threw |-> TRUE]

analyzeTopicShiftGuess(currentTopic, kind, isNew, name) ==
  CASE kind = "parsed" -> [isNewTopic |-> isNew, topicName |-> name, threw |-> FALSE]
    [] kind = "empty" -> [isNewTopic |-> FALSE, topicName |-> NoName, threw |-> FALSE]
    [] OTHER -> [isNewTopic |-> isNew, topicName |-> name, threw |-> FALSE]

analyzeTopicShift(currentTopic, kind, isNew, name) ==
  CASE kind = "parsed" -> [isNewTopic |-> isNew, topicName |-> name, threw |-> FALSE]
    [] kind = "empty" -> [isNewTopic |-> FALSE, topicName |-> NoName, threw |-> FALSE]
    [] OTHER -> [isNewTopic |-> FALSE, topicName |-> currentTopic, threw |-> FALSE]

\* The shift test of processUserQuery and of handleSendMessage.
IsShift(analysis, current) ==
  analysis.isNewTopic /\ analysis.topicName # current

\* The Notebook child agent: which text it hands to the parent, and the part
\* of the notes it quotes in it.
notebookOutput(content) == IF trim(content) # "" THEN "notebook" ELSE "no_notes"

notebookNotes(content) ==
  IF trim(content) # "" THEN substring(content, NotebookLimit) ELSE substring("", 0)

\* processUserQuery threw: the catch and finally blocks of handleSendMessage.
\* The error message goes to the chat view only, the loading flag is cleared.
TurnFails(s, t) ==
  /\ LET sr == [session[s] EXCEPT !.isChatLoading = FALSE] IN
     /\ session' = [session EXCEPT ![s] = IF mounted = s THEN sr ELSE DeadSession]
     /\ sessionState' = IF mounted = s THEN SavedState(sr) ELSE sessionState
  /\ turn' = [turn EXCEPT ![s] = Finished(t, "error", FALSE, NoId, NoId)]
  /\ UNCHANGED <<topics, currentTopicId, mainTopicName, nextId, clock, mounted,
                 jobs, nTurns, nSessions, lastCall>>
  /\ UNCHANGED viewVars

\* The classifier call resolved: processUserQuery handles the shift and routes
\* to the child agent of the mode.
ClassifyResolve(s, kind, isNew, name) ==
  /\ ~MicrotaskPending
  /\ turn[s].pc = "classify"
  /\ LET t == turn[s]
         analysis == analyzeTopicShift(t.classArg, kind, isNew, name)
         shift == IsShift(analysis, session[s].orch)
         working == IF shift THEN analysis.topicName ELSE session[s].orch
         nbId == getCurrentTopicId(topics, currentTopicId)
         content == IF nbId # NoId THEN get(topics, nbId).notebookContent ELSE ""
         t1 == [t EXCEPT !.classifier = kind, !.analysis = analysis,
                         !.workingTopicName = working, !.systemInjection = shift]
     IN IF analysis.threw
        THEN TurnFails(s, [t EXCEPT !.classifier = kind])
        ELSE /\ session' = [session EXCEPT ![s].orch = working]
             /\ turn' = [turn EXCEPT ![s] =
                  CASE t.mode = "RESEARCH" -> [t1 EXCEPT !.pc = "research"]
                    [] t.mode = "NOTEBOOK" ->
                         [t1 EXCEPT !.pc = "synth", !.notebookTopicId = nbId,
                                    !.childAgentOutput = notebookOutput(content),
                                    !.notes = notebookNotes(content)]
                    [] OTHER -> [t1 EXCEPT !.pc = "synth"]]
             /\ UNCHANGED <<storeVars, mounted, jobs, nTurns, nSessions, lastCall>>
  /\ UNCHANGED viewVars

\* performResearch: the text kind and the sources it returns.
SourceLists == {<<>>, <<"src">>}

performResearchKeepsSources(ok, srcs) ==
  IF ok THEN [text |-> "research", sources |-> srcs]
  ELSE [text |-> "research_unavailable", sources |-> srcs]

performResearch(ok, srcs) ==
  IF ok THEN [text |-> "research", sources |-> srcs]
  ELSE [text |-> "research_unavailable", sources |-> <<>>]

ResearchResolve(s, ok, srcs) ==
  /\ ~MicrotaskPending
  /\ turn[s].pc = "research"
  /\ LET r == performResearch(ok, srcs) IN
     turn' = [turn EXCEPT ![s] =
       [turn[s] EXCEPT !.pc = "synth", !.research = IF ok THEN "ok" ELSE "failed",
                       !.childAgentOutput = r.text, !.sources = r.sources]]
  /\ UNCHANGED <<storeVars, session, mounted, jobs, nTurns, nSessions, lastCall>>
  /\ UNCHANGED viewVars

\* processUserQuery calls triggerBackgroundGeneration without awaiting it.
awaitsEnrichmentAwaited == TRUE

awaitsEnrichment == FALSE

\* triggerBackgroundGeneration: the topic id the job will write to, read from
\* the store when the job is scheduled.
enrichTarget(ts, cur) == getCurrentTopicId(ts, cur)

\* if (!topicDB.getCurrentTopic()): the store has no active topic.
noCurrentTopicAlways(ts, cur) == TRUE

noCurrentTopic(ts, cur) == getCurrentTopicId(ts, cur) = NoId

\* parentChat.sendMessage resolved: processUserQuery builds the response,
\* schedules the background generation and returns.
SynthResolve(s, now) ==
  /\ ~MicrotaskPending
  /\ turn[s].pc = "synth"
  /\   LET t == turn[s]
           missing == noCurrentTopic(topics, currentTopicId)
           ts1 == IF missing
                  THEN createTopic(topics, t.workingTopicName, FALSE, nextId, now)
                  ELSE topics
           cur1 == IF missing
                   THEN setCurrentTopic(ts1, currentTopicId,
                          createTopicId(topics, t.workingTopicName, nextId))
                   ELSE currentTopicId
           target == enrichTarget(ts1, cur1)
           created == Len(ts1) > Len(topics)
       IN /\ topics' = ts1
          /\ currentTopicId' = cur1
          /\ nextId' = IF created THEN nextId + 1 ELSE nextId
          /\ clock' = IF created THEN now ELSE clock
          /\ jobs' = IF target # NoId
                     THEN jobs \cup {[turn |-> t.id, targetTopicId |-> target]}
                     ELSE jobs
          /\ turn' = [turn EXCEPT ![s] =
               [t EXCEPT !.pc = IF awaitsEnrichment /\ target # NoId
                                THEN "enrich_wait" ELSE "returned",
                         !.synth = "ok", !.enrichIssued = (target # NoId)]]
  /\ UNCHANGED <<mainTopicName, sessionState, session, mounted, nTurns, nSessions,
                 lastCall>>
  /\ UNCHANGED viewVars

\* parentChat.sendMessage rejected: processUserQuery throws.
SynthReject(s) ==
  /\ ~MicrotaskPending
  /\ turn[s].pc = "synth"
  /\ TurnFails(s, [turn[s] EXCEPT !.synth = "failed"])

\* The rest of handleSendMessage after processUserQuery returned: handle the
\* shift in the store, store the reply under the topic that is current then,
\* clear the loading flag.
TurnPersist(s, now) ==
  /\ turn[s].pc = "returned"
  /\   LET t == turn[s]
           N == t.analysis.topicName
           detected == IsShift(t.analysis, t.closureTopicName)
           found == getTopicByName(topics, N)
           create == detected /\ found = NoId
           ts1 == IF create THEN createTopic(topics, N, FALSE, nextId, now)
                  ELSE topics
           newId == IF create THEN createTopicId(topics, N, nextId) ELSE found
           cur1 == IF detected THEN setCurrentTopic(ts1, currentTopicId, newId)
                   ELSE currentTopicId
           post == getCurrentTopicId(ts1, cur1)
           sr == [session[s] EXCEPT
                    !.isChatLoading = FALSE,
                    !.orch = IF detected THEN N ELSE @,
                    !.currentTopicName = IF detected /\ mounted = s THEN N ELSE @]
       IN /\ topics' = IF post # NoId
                       THEN addMessageToTopic(ts1, post, ResponseMsg(t.id, t.sources))
                       ELSE ts1
          /\ currentTopicId' = cur1
          /\ nextId' = IF create THEN nextId + 1 ELSE nextId
          /\ clock' = IF create THEN now ELSE clock
          /\ session' = [session EXCEPT ![s] = IF mounted = s THEN sr ELSE DeadSession]
          /\ sessionState' = IF mounted = s THEN SavedState(sr) ELSE sessionState
          /\ turn' = [turn EXCEPT ![s] =
               Finished(t, "ok", detected, IF create THEN newId ELSE NoId, post)]
  /\ UNCHANGED <<mainTopicName, mounted, jobs, nTurns, nSessions, lastCall>>
  /\ UNCHANGED viewVars

\* generateMicroStudySet: the lists it returns; it catches its own failure.
generateMicroStudySetPartial(ok, k) ==
  IF ok THEN [flashcards |-> <<k>>, quiz |-> <<k>>]
  ELSE [flashcards |-> <<k>>, quiz |-> <<>>]

generateMicroStudySet(ok, k) ==
  IF ok THEN [flashcards |-> <<k>>, quiz |-> <<k>>]
  ELSE [flashcards |-> <<>>, quiz |-> <<>>]

\* The topic id the materials of a job are written to.
enrichWriteIdCurrent(j, ts, cur) == getCurrentTopicId(ts, cur)

enrichWriteId(j, ts, cur) == j.targetTopicId

\* The background generation call resolved: its materials go to the topic id
\* captured when the job was scheduled.
EnrichResolve(j, ok) ==
  /\ ~MicrotaskPending
  /\ j \in jobs
  /\ j.turn # 0
  /\ LET m == generateMicroStudySet(ok, j.turn)
         id == enrichWriteId(j, topics, currentTopicId)
     IN topics' = addQuizQuestionsToTopic(
                    addFlashcardsToTopic(topics, id, m.flashcards), id, m.quiz)
  /\ jobs' = jobs \ {j}
  /\ turn' = [s \in Sessions |->
                IF turn[s].id = j.turn /\ turn[s].pc = "enrich_wait"
                THEN [turn[s] EXCEPT !.pc = "returned"] ELSE turn[s]]
  /\ UNCHANGED <<currentTopicId, mainTopicName, sessionState, nextId, clock,
                 session, mounted, nTurns, nSessions, lastCall>>
  /\ UNCHANGED viewVars

\* ------------------------------------------------------------ the slides
MaxSlideRequests == 2

slides(l) == 1 + l.generated

\* topicDB.getCurrentTopic()?.id at the time the summary is saved.
summaryTopicIdFirst(ts, cur) == IF ts = <<>> THEN NoId ELSE ts[1].id

summaryTopicId(ts, cur) == getCurrentTopicId(ts, cur)

\* handleNextSlide up to its first await: forward to a slide that exists, or,
\* on the last slide, the request for the summary of its discussion.
handleNextSlide ==
  /\ ~MicrotaskPending
  /\ mounted # 0
  /\ session[mounted].status = "ready"
  /\ ~lesson[mounted].generatingNext
  /\ LET l == lesson[mounted] IN
     IF l.currentSlideIndex < slides(l) - 1
     THEN lesson' = [lesson EXCEPT ![mounted].currentSlideIndex = @ + 1]
     ELSE /\ l.requests < MaxSlideRequests
          /\ lesson' = [lesson EXCEPT ![mounted] =
                          [l EXCEPT !.generatingNext = TRUE, !.pc = "summarize",
                                    !.requests = @ + 1]]
  /\ UNCHANGED <<storeVars, session, mounted, turn, jobs, nTurns, nSessions, lastCall,
                 flashcardsView, quizView, examMode, isExamActive>>

\* The Previous button.
handlePrevSlide ==
  /\ ~MicrotaskPending
  /\ mounted # 0
  /\ session[mounted].status = "ready"
  /\ ~lesson[mounted].generatingNext
  /\ lesson[mounted].currentSlideIndex > 0
  /\ lesson' = [lesson EXCEPT ![mounted].currentSlideIndex = @ - 1]
  /\ UNCHANGED <<storeVars, session, mounted, turn, jobs, nTurns, nSessions, lastCall,
                 flashcardsView, quizView, examMode, isExamActive>>

\* summarizeSlideDiscussion returned (it catches its own failure and always
\* returns a text): the summary goes to the topic that is current now, and
\* getNextSlide is called.
SummaryResolve(s, summary) ==
  /\ ~MicrotaskPending
  /\ lesson[s].pc = "summarize"
  /\ LET cur == summaryTopicId(topics, currentTopicId) IN
     topics' = IF cur # NoId THEN appendKnowledge(topics, cur, summary) ELSE topics
  /\ lesson' = [lesson EXCEPT ![s].pc = "generate"]
  /\ UNCHANGED <<currentTopicId, mainTopicName, sessionState, nextId, clock,
                 session, mounted, turn, jobs, nTurns, nSessions, lastCall,
                 flashcardsView, quizView, examMode, isExamActive>>

\* getNextSlide resolved with the new slide (ok) or threw.
NextSlideResolve(s, ok) ==
  /\ ~MicrotaskPending
  /\ lesson[s].pc = "generate"
  /\ lesson' = [lesson EXCEPT ![s] =
                  [@ EXCEPT !.pc = "none", !.generatingNext = FALSE,
                            !.generated = IF ok THEN @ + 1 ELSE @,
                            !.currentSlideIndex = IF ok THEN @ + 1 ELSE @]]
  /\ UNCHANGED <<storeVars, session, mounted, turn, jobs, nTurns, nSessions, lastCall,
                 flashcardsView, quizView, examMode, isExamActive>>

\* -------------------------------------------------- the practice views
\* The Flashcards and Quiz views of the practice mode, on screen while the
\* StudySession is not. A load that finds nothing stored under a main topic
\* asks the generator for a list and stores it under the id it was started for.
PracticeViews == {"Flashcards", "Quiz"}

MaxLoads == 2

\* The pending generations started by the practice views.
viewJobs == {j \in jobs : j.turn = 0 /\ j.view \in PracticeViews}

\* getFlashcards / getQuiz of load n resolved: a list of two items.
generatedList(n) == <<0 - (2 * n - 1), 0 - (2 * n)>>

storedList(view, content) ==
  IF view = "Flashcards" THEN content.flashcards ELSE content.quizzes

\* loadCardsForTopic / loadQuiz for the topic selected in the view.
ViewLoad(view, id) ==
  /\ ~MicrotaskPending
  /\ mounted = 0
  /\ \E i \in DOMAIN topics : topics[i].id = id /\ topics[i].isMainTopic
  /\ storedList(view, getTopicContent(topics, id)) = <<>>
  /\ \E n \in 1..MaxLoads :
       /\ \A j \in viewJobs : j.load # n
       /\ \A m \in 1..(n - 1) : \E j \in viewJobs : j.load = m
       /\ jobs' = jobs \cup {[turn |-> 0, targetTopicId |-> id,
                               view |-> view, load |-> n]}
  /\ UNCHANGED <<storeVars, session, mounted, turn, nTurns, nSessions, lastCall>>
  /\ UNCHANGED viewVars

\* The generator call of a view load resolved (ok) or threw.
ViewResolve(j, ok) ==
  /\ ~MicrotaskPending
  /\ j \in viewJobs
  /\ topics' = IF ~ok THEN topics
               ELSE IF j.view = "Flashcards"
               THEN addFlashcardsToTopic(topics, j.targetTopicId, generatedList(j.load))
               ELSE addQuizQuestionsToTopic(topics, j.targetTopicId, generatedList(j.load))
  /\ jobs' = jobs \ {j}
  /\ UNCHANGED <<currentTopicId, mainTopicName, sessionState, nextId, clock,
                 session, mounted, turn, nTurns, nSessions, lastCall>>
  /\ UNCHANGED viewVars

\* ------------------------------------------------- the Flashcards view
\* The view with its own state. cards is either the array of a stored topic,
\* held by reference (cardsRef) and growing with it, or the list a generation
\* returned. timers are the delayed index updates not yet run, pending the
\* generations not yet resolved; those of a view that has left the screen stay
\* pending and no longer belong to it (live = FALSE).
MaxTimers == 2

cardsOf(v, ts) ==
  IF v.cardsRef # NoId /\ has(ts, v.cardsRef) THEN get(ts, v.cardsRef).flashcards
  ELSE v.cards

\* The first topic of the list when the store has no current topic.
firstTopicId(order) == IF Len(order) > 0 THEN order[1] ELSE NoId

\* loadedCards.length === 0 && topicObj?.isMainTopic
generates(list, available, ts, id) ==
  /\ list = <<>>
  /\ id \in available /\ has(ts, id) /\ get(ts, id).isMainTopic

freeLoads(pending) == {n \in 1..MaxLoads : \A p \in pending : p.load # n}

\* loadCardsForTopic up to its await, or to its end when nothing is generated.
loadCardsForTopic(v, id) ==
  LET loadedCards == getTopicContent(topics, id).flashcards
      started == [v EXCEPT !.loading = TRUE, !.error = FALSE, !.currentIndex = 0]
  IN IF generates(loadedCards, v.availableTopics, topics, id)
     THEN [started EXCEPT !.pending = @ \cup
             {[topicId |-> id, live |-> TRUE,
               load |-> CHOOSE n \in freeLoads(v.pending) :
                          \A m \in freeLoads(v.pending) : n <= m]}]
     ELSE [started EXCEPT !.loading = FALSE,
                          !.cardsRef = IF has(topics, id) THEN id ELSE NoId,
                          !.cards = <<>>]

\* The Flashcards tab of the practice mode: the view mounts, lists the topics,
\* selects the current one and loads its cards.
OpenFlashcards ==
  /\ ~MicrotaskPending
  /\ mounted = 0 /\ nSessions > 0
  /\ ~flashcardsView.mounted /\ ~quizView.mounted /\ ~examMode.mounted
  /\ freeLoads(flashcardsView.pending) # {}
  /\ \E order \in getAllTopics(topics) :
       LET cur == getCurrentTopicId(topics, currentTopicId)
           id == IF cur # NoId THEN cur ELSE firstTopicId(order)
           v == [NoFlashcards EXCEPT !.mounted = TRUE, !.activeTopicId = id,
                                     !.availableTopics = TopicIds(topics),
                                     !.pending = flashcardsView.pending]
       IN flashcardsView' = IF id # NoId THEN loadCardsForTopic(v, id) ELSE v
  /\ UNCHANGED <<storeVars, session, mounted, turn, jobs, nTurns, nSessions, lastCall,
                 lesson, quizView, examMode, isExamActive>>

\* The view leaves the screen; what it started goes on without it.
LeaveFlashcards ==
  /\ ~MicrotaskPending
  /\ flashcardsView.mounted
  /\ flashcardsView' =
       [NoFlashcards EXCEPT !.pending =
          {[p EXCEPT !.live = FALSE] : p \in flashcardsView.pending}]
  /\ UNCHANGED <<storeVars, session, mounted, turn, jobs, nTurns, nSessions, lastCall,
                 lesson, quizView, examMode, isExamActive>>

\* A topic button of the sidebar: setActiveTopicId, then the load effect.
setActiveTopicId(id) ==
  /\ ~MicrotaskPending
  /\ flashcardsView.mounted
  /\ id \in flashcardsView.availableTopics
  /\ id # flashcardsView.activeTopicId
  /\ freeLoads(flashcardsView.pending) # {}
  /\ flashcardsView' =
       loadCardsForTopic([flashcardsView EXCEPT !.activeTopicId = id], id)
  /\ UNCHANGED <<storeVars, session, mounted, turn, jobs, nTurns, nSessions, lastCall,
                 lesson, quizView, examMode, isExamActive>>

\* getFlashcards resolved with its list (ok) or threw: the rest of
\* loadCardsForTopic, whatever topic the view shows by now.
CardsResolve(p, ok) ==
  /\ ~MicrotaskPending
  /\ p \in flashcardsView.pending
  /\ topics' = IF ok THEN addFlashcardsToTopic(topics, p.topicId, generatedList(p.load))
               ELSE topics
  /\ flashcardsView' =
       LET v == [flashcardsView EXCEPT !.pending = @ \ {p}] IN
       IF ~p.live THEN v
       ELSE IF ok THEN [v EXCEPT !.cardsRef = NoId, !.cards = generatedList(p.load),
                                 !.loading = FALSE]
       ELSE [v EXCEPT !.error = TRUE, !.loading = FALSE]
  /\ UNCHANGED <<currentTopicId, mainTopicName, sessionState, nextId, clock,
                 session, mounted, turn, jobs, nTurns, nSessions, lastCall,
                 lesson, quizView, examMode, isExamActive>>

\* The card with its buttons is on screen (rendering cards[currentIndex]).
CardShown ==
  /\ flashcardsView.mounted
  /\ ~flashcardsView.loading /\ ~flashcardsView.error
  /\ flashcardsView.currentIndex \in 0 .. Len(cardsOf(flashcardsView, topics)) - 1

\* handleNext / handlePrev: the guard reads the index of the last render, the
\* update runs 150 ms later on the index of that time.
handleNext ==
  /\ ~MicrotaskPending
  /\ CardShown
  /\ Len(flashcardsView.timers) < MaxTimers
  /\ flashcardsView.currentIndex < Len(cardsOf(flashcardsView, topics)) - 1
  /\ flashcardsView' = [flashcardsView EXCEPT !.timers = Append(@, 1)]
  /\ UNCHANGED <<storeVars, session, mounted, turn, jobs, nTurns, nSessions, lastCall,
                 lesson, quizView, examMode, isExamActive>>

handlePrev ==
  /\ ~MicrotaskPending
  /\ CardShown
  /\ Len(flashcardsView.timers) < MaxTimers
  /\ flashcardsView.currentIndex > 0
  /\ flashcardsView' = [flashcardsView EXCEPT !.timers = Append(@, 0 - 1)]
  /\ UNCHANGED <<storeVars, session, mounted, turn, jobs, nTurns, nSessions, lastCall,
                 lesson, quizView, examMode, isExamActive>>

\* The Reset button: setCurrentIndex(0).
resetCards ==
  /\ ~MicrotaskPending
  /\ CardShown
  /\ flashcardsView.currentIndex # 0
  /\ flashcardsView' = [flashcardsView EXCEPT !.currentIndex = 0]
  /\ UNCHANGED <<storeVars, session, mounted, turn, jobs, nTurns, nSessions, lastCall,
                 lesson, quizView, examMode, isExamActive>>

\* The oldest delayed update runs: setCurrentIndex(prev => prev + d).
TimerFires ==
  /\ ~MicrotaskPending
  /\ flashcardsView.mounted
  /\ flashcardsView.timers # <<>>
  /\ flashcardsView' = [flashcardsView EXCEPT
       !.currentIndex = @ + Head(flashcardsView.timers), !.timers = Tail(@)]
  /\ UNCHANGED <<storeVars, session, mounted, turn, jobs, nTurns, nSessions, lastCall,
                 lesson, quizView, examMode, isExamActive>>

FlashcardsStep ==
  \/ OpenFlashcards
  \/ LeaveFlashcards
  \/ \E id \in 1..nextId : setActiveTopicId(id)
  \/ \E p \in flashcardsView.pending, ok \in BOOLEAN : CardsResolve(p, ok)
  \/ handleNext
  \/ handlePrev
  \/ resetCards
  \/ TimerFires

\* ------------------------------------------------------- the Quiz view
\* The view with its own state; questions is held like the cards of the
\* Flashcards view, pending are its generations not yet resolved.
questionsOf(v, ts) ==
  IF v.questionsRef # NoId /\ has(ts, v.questionsRef) THEN get(ts, v.questionsRef).quizzes
  ELSE v.questions

\* loadQuiz up to its await, or to its end when nothing is generated.
loadQuiz(v, id) ==
  LET loadedQuestions == getTopicContent(topics, id).quizzes
      started == [v EXCEPT !.loading = TRUE, !.error = FALSE, !.quizCompleted = FALSE,
                           !.currentQIndex = 0, !.score = 0, !.isAnswered = FALSE]
  IN IF generates(loadedQuestions, v.availableTopics, topics, id)
     THEN [started EXCEPT !.pending = @ \cup
             {[topicId |-> id, live |-> TRUE,
               load |-> CHOOSE n \in freeLoads(v.pending) :
                          \A m \in freeLoads(v.pending) : n <= m]}]
     ELSE [started EXCEPT !.loading = FALSE,
                          !.questionsRef = IF has(topics, id) THEN id ELSE NoId,
                          !.questions = <<>>]

\* The Interactive Quiz tab: the view mounts, lists the topics, selects the
\* current one and loads its quiz.
OpenQuiz ==
  /\ ~MicrotaskPending
  /\ mounted = 0 /\ nSessions > 0
  /\ ~flashcardsView.mounted /\ ~quizView.mounted /\ ~examMode.mounted
  /\ freeLoads(quizView.pending) # {}
  /\ \E order \in getAllTopics(topics) :
       LET cur == getCurrentTopicId(topics, currentTopicId)
           id == IF cur # NoId THEN cur ELSE firstTopicId(order)
           v == [NoQuiz EXCEPT !.mounted = TRUE, !.activeTopicId = id,
                               !.availableTopics = TopicIds(topics),
                               !.pending = quizView.pending]
       IN quizView' = IF id # NoId THEN loadQuiz(v, id) ELSE v
  /\ UNCHANGED <<storeVars, session, mounted, turn, jobs, nTurns, nSessions, lastCall,
                 lesson, flashcardsView, examMode, isExamActive>>

LeaveQuiz ==
  /\ ~MicrotaskPending
  /\ quizView.mounted
  /\ quizView' =
       [NoQuiz EXCEPT !.pending = {[p EXCEPT !.live = FALSE] : p \in quizView.pending}]
  /\ UNCHANGED <<storeVars, session, mounted, turn, jobs, nTurns, nSessions, lastCall,
                 lesson, flashcardsView, examMode, isExamActive>>

\* A topic button of the sidebar (enabled also while a quiz is loading):
\* setActiveTopicId, then the load effect.
selectQuizTopic(id) ==
  /\ ~MicrotaskPending
  /\ quizView.mounted
  /\ id \in quizView.availableTopics
  /\ id # quizView.activeTopicId
  /\ freeLoads(quizView.pending) # {}
  /\ quizView' = loadQuiz([quizView EXCEPT !.activeTopicId = id], id)
  /\ UNCHANGED <<storeVars, session, mounted, turn, jobs, nTurns, nSessions, lastCall,
                 lesson, flashcardsView, examMode, isExamActive>>

\* getQuiz resolved with its list (ok) or threw: the rest of loadQuiz, whatever
\* the view shows by now.
QuizResolve(p, ok) ==
  /\ ~MicrotaskPending
  /\ p \in quizView.pending
  /\ topics' = IF ok THEN addQuizQuestionsToTopic(topics, p.topicId, generatedList(p.load))
               ELSE topics
  /\ quizView' =
       LET v == [quizView EXCEPT !.pending = @ \ {p}] IN
       IF ~p.live THEN v
       ELSE IF ok THEN [v EXCEPT !.questionsRef = NoId,
                                 !.questions = generatedList(p.load), !.loading = FALSE]
       ELSE [v EXCEPT !.error = TRUE, !.loading = FALSE]
  /\ UNCHANGED <<currentTopicId, mainTopicName, sessionState, nextId, clock,
                 session, mounted, turn, jobs, nTurns, nSessions, lastCall,
                 lesson, flashcardsView, examMode, isExamActive>>

\* What the main area renders: the completion screen, or the current question
\* (rendering questions[currentQIndex]).
QuizListShown ==
  /\ quizView.mounted
  /\ ~quizView.loading /\ ~quizView.error
  /\ questionsOf(quizView, topics) # <<>>

CompletionShown == QuizListShown /\ quizView.quizCompleted

QuestionShown ==
  /\ QuizListShown /\ ~quizView.quizCompleted
  /\ quizView.currentQIndex \in 0 .. Len(questionsOf(quizView, topics)) - 1

\* handleOptionSelect with the correct option or another one.
handleOptionSelect(correct) ==
  /\ ~MicrotaskPending
  /\ QuestionShown
  /\ ~quizView.isAnswered
  /\ quizView' = [quizView EXCEPT !.isAnswered = TRUE,
                                  !.score = IF correct THEN @ + 1 ELSE @]
  /\ UNCHANGED <<storeVars, session, mounted, turn, jobs, nTurns, nSessions, lastCall,
                 lesson, flashcardsView, examMode, isExamActive>>

\* handleNext of the Quiz, rendered once the question is answered.
handleNextQuestion ==
  /\ ~MicrotaskPending
  /\ QuestionShown
  /\ quizView.isAnswered
  /\ quizView' =
       IF quizView.currentQIndex < Len(questionsOf(quizView, topics)) - 1
       THEN [quizView EXCEPT !.currentQIndex = @ + 1, !.isAnswered = FALSE]
       ELSE [quizView EXCEPT !.quizCompleted = TRUE]
  /\ UNCHANGED <<storeVars, session, mounted, turn, jobs, nTurns, nSessions, lastCall,
                 lesson, flashcardsView, examMode, isExamActive>>

\* "Try Again" on the completion screen: loadQuiz for the same topic.
retryQuiz ==
  /\ ~MicrotaskPending
  /\ CompletionShown
  /\ quizView.activeTopicId # NoId
  /\ freeLoads(quizView.pending) # {}
  /\ quizView' = loadQuiz(quizView, quizView.activeTopicId)
  /\ UNCHANGED <<storeVars, session, mounted, turn, jobs, nTurns, nSessions, lastCall,
                 lesson, flashcardsView, examMode, isExamActive>>

QuizStep ==
  \/ OpenQuiz
  \/ LeaveQuiz
  \/ \E id \in 1..nextId : selectQuizTopic(id)
  \/ \E p \in quizView.pending, ok \in BOOLEAN : QuizResolve(p, ok)
  \/ \E correct \in BOOLEAN : handleOptionSelect(correct)
  \/ handleNextQuestion
  \/ retryQuiz

\* ------------------------------------------------------------- ExamMode
\* The pending exam generation of the ExamMode view.
examJobs == {j \in jobs : j.turn = 0 /\ j.view = "Exam"}

\* existingExam && existingExam.length > 0
examExistsNever(existingExam) == FALSE

examExists(existingExam) == Len(existingExam) > 0

\* What generateExam resolves to: the questions with their ids, or no question.
ExamLists == {<<>>, <<"q-0", "q-1">>}

\* The navigation controls of App: disabled while an exam is in progress.
canNavigateAlways(active) == TRUE

canNavigate(active) == ~active

\* The topics offered by the view: the main topic and those with knowledge.
availableTopics(ts) ==
  {ts[i].id : i \in {j \in DOMAIN ts : Len(ts[j].knowledgeBase) > 0 \/ ts[j].isMainTopic}}

\* The Final Exam tab: ExamMode mounts, lists the topics and selects the
\* current one, or the first of the list when the store has no current topic.
OpenExamMode ==
  /\ ~MicrotaskPending
  /\ canNavigate(isExamActive)
  /\ mounted = 0 /\ nSessions > 0
  /\ ~examMode.mounted
  /\ LET cur == getCurrentTopicId(topics, currentTopicId)
         avail == availableTopics(topics)
     IN \E order \in getAllTopics(topics) :
          LET firsts == {i \in DOMAIN order :
                           /\ order[i] \in avail
                           /\ \A k \in 1..(i - 1) : order[k] \notin avail}
          IN examMode' = [NoExamMode EXCEPT
               !.mounted = TRUE, !.availableTopics = avail,
               !.selectedTopicId = IF cur # NoId THEN cur
                                   ELSE IF firsts = {} THEN NoId
                                   ELSE order[CHOOSE i \in firsts : TRUE]]
  /\ UNCHANGED <<storeVars, session, mounted, turn, jobs, nTurns, nSessions, lastCall,
                 lesson, flashcardsView, quizView, isExamActive>>

\* Another tab or the header: ExamMode unmounts and its cleanup effect calls
\* onExamEnd.
LeaveExamMode ==
  /\ ~MicrotaskPending
  /\ canNavigate(isExamActive)
  /\ examMode.mounted
  /\ examMode' = NoExamMode
  /\ isExamActive' = FALSE
  /\ UNCHANGED <<storeVars, session, mounted, turn, jobs, nTurns, nSessions, lastCall,
                 lesson, flashcardsView, quizView>>

handleTopicSelect(id) ==
  /\ ~MicrotaskPending
  /\ examMode.mounted /\ examMode.step = "SELECT_TOPIC"
  /\ id \in examMode.availableTopics
  /\ id # examMode.selectedTopicId
  /\ examMode' = [examMode EXCEPT !.selectedTopicId = id]
  /\ UNCHANGED <<storeVars, session, mounted, turn, jobs, nTurns, nSessions, lastCall,
                 lesson, flashcardsView, quizView, isExamActive>>

proceedToConsent ==
  /\ ~MicrotaskPending
  /\ examMode.mounted /\ examMode.step = "SELECT_TOPIC"
  /\ examMode.selectedTopicId # NoId
  /\ examMode' = [examMode EXCEPT !.step = "CONSENT"]
  /\ UNCHANGED <<storeVars, session, mounted, turn, jobs, nTurns, nSessions, lastCall,
                 lesson, flashcardsView, quizView, isExamActive>>

\* "Back to Topic Selection" on the consent screen, which stays on screen, with
\* this button enabled, while the exam is being generated.
backToTopicSelection ==
  /\ ~MicrotaskPending
  /\ examMode.mounted /\ examMode.step = "CONSENT"
  /\ examMode' = [examMode EXCEPT !.step = "SELECT_TOPIC"]
  /\ UNCHANGED <<storeVars, session, mounted, turn, jobs, nTurns, nSessions, lastCall,
                 lesson, flashcardsView, quizView, isExamActive>>

\* startExam for the selected topic: the app is locked, then the stored exam is
\* shown or the generation call is issued; the start button is disabled while
\* a generation is loading.
startExam(id) ==
  /\ ~MicrotaskPending
  /\ examMode.mounted /\ examMode.step = "CONSENT" /\ ~examMode.loading
  /\ id = examMode.selectedTopicId /\ id # NoId
  /\ LET existingExam == getExamQuestionsForTopic(topics, id) IN
     /\ jobs' = IF examExists(existingExam) THEN jobs
                ELSE jobs \cup {[turn |-> 0, targetTopicId |-> id,
                                 view |-> "Exam", load |-> 0]}
     /\ lastCall' = [NoCall EXCEPT !.op = "startExam", !.id = id,
                                   !.added = ~examExists(existingExam),
                                   !.value = existingExam]
     /\ examMode' = IF examExists(existingExam)
                    THEN [examMode EXCEPT !.step = "EXAM"]
                    ELSE [examMode EXCEPT !.loading = TRUE]
  /\ isExamActive' = TRUE
  /\ UNCHANGED <<storeVars, session, mounted, turn, nTurns, nSessions,
                 lesson, flashcardsView, quizView>>

\* generateExam resolved with its questions (ok) or threw. onExamEnd is the
\* setter of App and acts whether or not the view is still there.
ExamResolve(j, ok, newQuestions) ==
  /\ ~MicrotaskPending
  /\ j \in examJobs
  /\ topics' = IF ok THEN setExamQuestionsForTopic(topics, j.targetTopicId, newQuestions)
               ELSE topics
  /\ jobs' = jobs \ {j}
  /\ examMode' = IF ~examMode.mounted THEN examMode
                 ELSE [examMode EXCEPT !.loading = FALSE,
                                       !.step = IF ok THEN "EXAM" ELSE @]
  /\ isExamActive' = IF ok THEN isExamActive ELSE FALSE
  /\ UNCHANGED <<currentTopicId, mainTopicName, sessionState, nextId, clock,
                 session, mounted, turn, nTurns, nSessions, lastCall,
                 lesson, flashcardsView, quizView>>

\* The exam questions are on screen: the step is past the consent, nothing is
\* loading or being graded, and the results view has no feedback to show.
ExamShown ==
  /\ examMode.mounted
  /\ examMode.step \in {"EXAM", "RESULTS"}
  /\ ~examMode.loading /\ ~examMode.analyzingResults
  /\ ~(examMode.step = "RESULTS" /\ examMode.feedback)

\* handleSubmit up to its await, once every question has an answer.
handleSubmit ==
  /\ ~MicrotaskPending
  /\ ExamShown
  /\ examMode' = [examMode EXCEPT !.analyzingResults = TRUE]
  /\ UNCHANGED <<storeVars, session, mounted, turn, jobs, nTurns, nSessions, lastCall,
                 lesson, flashcardsView, quizView, isExamActive>>

\* gradeExam resolved with the feedback (ok) or threw: the results step either
\* way.
GradeResolve(ok) ==
  /\ ~MicrotaskPending
  /\ examMode.mounted /\ examMode.analyzingResults
  /\ examMode' = [examMode EXCEPT !.analyzingResults = FALSE, !.step = "RESULTS",
                                  !.feedback = IF ok THEN TRUE ELSE @]
  /\ UNCHANGED <<storeVars, session, mounted, turn, jobs, nTurns, nSessions, lastCall,
                 lesson, flashcardsView, quizView, isExamActive>>

\* The exit button of the results view.
handleExit ==
  /\ ~MicrotaskPending
  /\ examMode.mounted /\ examMode.step = "RESULTS" /\ examMode.feedback
  /\ ~examMode.loading /\ ~examMode.analyzingResults
  /\ examMode' = [examMode EXCEPT !.step = "SELECT_TOPIC", !.feedback = FALSE]
  /\ isExamActive' = FALSE
  /\ UNCHANGED <<storeVars, session, mounted, turn, jobs, nTurns, nSessions, lastCall,
                 lesson, flashcardsView, quizView>>

\* ------------------------------------------- the store called on its own
sessionVars == <<session, mounted, turn, jobs, nTurns, nSessions>>

\* topicDB.reset(name)
StoreReset(name, now) ==
  /\ lastCall.n < MaxCalls
  /\ topics' = resetTopics(name, nextId, now)
  /\ mainTopicName' = name
  /\ sessionState' = resetSessionState(sessionState)
  /\ currentTopicId' = createTopicId(<<>>, name, nextId)
  /\ nextId' = nextId + 1
  /\ clock' = now
  /\ lastCall' = [NoCall EXCEPT !.n = lastCall.n + 1, !.op = "reset",
                                 !.name = name, !.added = TRUE]
  /\ UNCHANGED sessionVars
  /\ UNCHANGED viewVars

\* topicDB.createTopic(name, isMain)
StoreCreateTopic(name, isMain, now) ==
  /\ lastCall.n < MaxCalls
  /\ LET ts1 == createTopic(topics, name, isMain, nextId, now)
         added == Len(ts1) > Len(topics)
     IN /\ topics' = ts1
        /\ nextId' = IF added THEN nextId + 1 ELSE nextId
        /\ clock' = IF added THEN now ELSE clock
        /\ lastCall' = [NoCall EXCEPT !.n = lastCall.n + 1, !.op = "createTopic",
                                       !.name = name, !.added = added,
                                       !.value = <<isMain>>,
                                       !.ret = createTopicId(topics, name, nextId)]
  /\ UNCHANGED <<currentTopicId, mainTopicName, sessionState, sessionVars>>
  /\ UNCHANGED viewVars

\* topicDB.setCurrentTopic(id), also with an id the store never issued.
StoreSetCurrentTopic(id) ==
  /\ lastCall.n < MaxCalls
  /\ currentTopicId' = setCurrentTopic(topics, currentTopicId, id)
  /\ lastCall' = [NoCall EXCEPT !.n = lastCall.n + 1, !.op = "setCurrentTopic",
                                 !.id = id]
  /\ UNCHANGED <<topics, mainTopicName, sessionState, nextId, clock, sessionVars>>
  /\ UNCHANGED viewVars

\* The record of a call that takes a topic id.
Called(op, id) == [NoCall EXCEPT !.n = lastCall.n + 1, !.op = op, !.id = id]

\* The mutating calls that take a topic id, also with an id the store does not
\* hold. What they write is one value each.
StoreAddMessageToTopic(id) ==
  /\ lastCall.n < MaxCalls
  /\ topics' = addMessageToTopic(topics, id, UserMsg(0))
  /\ lastCall' = Called("addMessageToTopic", id)
  /\ UNCHANGED <<currentTopicId, mainTopicName, sessionState, nextId, clock, sessionVars>>
  /\ UNCHANGED viewVars

Summaries == {"s1", "s2"}

StoreAppendKnowledge(id, summary) ==
  /\ lastCall.n < MaxCalls
  /\ topics' = appendKnowledge(topics, id, summary)
  /\ lastCall' = [Called("appendKnowledge", id) EXCEPT !.value = <<summary>>]
  /\ UNCHANGED <<currentTopicId, mainTopicName, sessionState, nextId, clock, sessionVars>>
  /\ UNCHANGED viewVars

StoreAddFlashcardsToTopic(id) ==
  /\ lastCall.n < MaxCalls
  /\ topics' = addFlashcardsToTopic(topics, id, <<0>>)
  /\ lastCall' = Called("addFlashcardsToTopic", id)
  /\ UNCHANGED <<currentTopicId, mainTopicName, sessionState, nextId, clock, sessionVars>>
  /\ UNCHANGED viewVars

StoreAddQuizQuestionsToTopic(id) ==
  /\ lastCall.n < MaxCalls
  /\ topics' = addQuizQuestionsToTopic(topics, id, <<0>>)
  /\ lastCall' = Called("addQuizQuestionsToTopic", id)
  /\ UNCHANGED <<currentTopicId, mainTopicName, sessionState, nextId, clock, sessionVars>>
  /\ UNCHANGED viewVars

StoreSetExamQuestionsForTopic(id) ==
  /\ lastCall.n < MaxCalls
  /\ topics' = setExamQuestionsForTopic(topics, id, <<"exam">>)
  /\ lastCall' = Called("setExamQuestionsForTopic", id)
  /\ UNCHANGED <<currentTopicId, mainTopicName, sessionState, nextId, clock, sessionVars>>
  /\ UNCHANGED viewVars

StoreUpdateNotebookContent(id) ==
  /\ lastCall.n < MaxCalls
  /\ topics' = updateNotebookContent(topics, id, "notes")
  /\ lastCall' = Called("updateNotebookContent", id)
  /\ UNCHANGED <<currentTopicId, mainTopicName, sessionState, nextId, clock, sessionVars>>
  /\ UNCHANGED viewVars

\* topicDB.setSessionState(state)
StoreSetSessionState(state) ==
  /\ lastCall.n < MaxCalls
  /\ sessionState' = setSessionState(sessionState, state)
  /\ lastCall' = [NoCall EXCEPT !.n = lastCall.n + 1, !.op = "setSessionState",
                                 !.value = <<state>>]
  /\ UNCHANGED <<topics, currentTopicId, mainTopicName, nextId, clock, sessionVars>>
  /\ UNCHANGED viewVars

\* topicDB.getSessionState(): the stored snapshot, or none.
StoreGetSessionState ==
  /\ lastCall.n < MaxCalls
  /\ lastCall' = [NoCall EXCEPT !.n = lastCall.n + 1, !.op = "getSessionState",
                                 !.value = getSessionState(sessionState)]
  /\ UNCHANGED <<storeVars, sessionVars>>
  /\ UNCHANGED viewVars

\* topicDB.getAllTopics()
StoreGetAllTopics ==
  /\ lastCall.n < MaxCalls
  /\ \E order \in getAllTopics(topics) :
       lastCall' = [NoCall EXCEPT !.n = lastCall.n + 1, !.op = "getAllTopics",
                                 !.value = <<order>>]
  /\ UNCHANGED <<storeVars, sessionVars>>
  /\ UNCHANGED viewVars

\* The reading calls that take a topic id: the store stays as it is, the call
\* returns value.
ReaderOps == {"getKnowledgeBase", "getExamQuestionsForTopic", "getTopicContent"}

StoreRead(op, id) ==
  /\ lastCall.n < MaxCalls
  /\ lastCall' = [Called(op, id) EXCEPT !.value =
        CASE op = "getKnowledgeBase" -> <<getKnowledgeBase(topics, id)>>
          [] op = "getExamQuestionsForTopic" -> <<getExamQuestionsForTopic(topics, id)>>
          [] OTHER -> <<getTopicContent(topics, id)>>]
  /\ UNCHANGED <<storeVars, sessionVars>>
  /\ UNCHANGED viewVars

\* ---------------------------------------------------------- specifications
\* What the classifier call may come back with. The name returned together
\* with isNewTopic = FALSE is never looked at by the pipeline.
ClassifierAnswers ==
  {[kind |-> "parsed", isNew |-> TRUE, name |-> n] : n \in Names}
  \cup {[kind |-> "parsed", isNew |-> FALSE, name |-> "Biology"],
        [kind |-> "empty", isNew |-> FALSE, name |-> NoName],
        [kind |-> "failed", isNew |-> FALSE, name |-> NoName]}

\* The steps of a turn after the classifier call has resolved.
TurnStep ==
  \/ \E s \in Sessions, now \in Nows : SynthResolve(s, now)
  \/ \E s \in Sessions : SynthReject(s)
  \/ \E s \in Sessions, now \in Nows : TurnPersist(s, now)
  \/ \E j \in jobs, ok \in BOOLEAN : EnrichResolve(j, ok)

\* No turn of a StudySession that has left the screen is still in flight.
NoStaleTurn == \A s \in Sessions : s # mounted => ~InFlight(turn[s])

\* The study session with the Tutor agent, left and re-entered at any time,
\* also while a turn or a background generation is in flight. The user leaves
\* the session while at most one turn of an earlier visit is still in flight,
\* and types the next message after the last background generation finished.
Next ==
  \/ NoStaleTurn /\ Unmount
  \/ \E T \in MainNames, now \in Nows : Mount(T, now)
  \/ \E s \in Sessions : SlideLoaded(s)
  \/ \E s \in Sessions : SlideFailed(s)
  \/ jobs = {} /\ handleSendMessage
  \/ \E s \in Sessions, a \in ClassifierAnswers :
       ClassifyResolve(s, a.kind, a.isNew, a.name)
  \/ TurnStep

Spec == Init /\ [][Next]_vars

\* One study session with all three agents under the single-pipeline
\* assumption of the design: the session is never left, messages and agent
\* mode changes come at any time the controls allow.
NextSolo ==
  \/ \E T \in MainNames, now \in Nows : Mount(T, now)
  \/ \E s \in Sessions : SlideLoaded(s)
  \/ \E s \in Sessions : SlideFailed(s)
  \/ \E m \in AgentModes : SetAgentMode(m)
  \/ handleSendMessage
  \/ \E s \in Sessions, kind \in ClassifierOutcomes, isNew \in BOOLEAN, name \in Names :
       ClassifyResolve(s, kind, isNew, name)
  \/ \E s \in Sessions, ok \in BOOLEAN, srcs \in SourceLists : ResearchResolve(s, ok, srcs)
  \/ TurnStep

SpecSolo == Init /\ [][NextSolo]_vars

\* The same session when every call a turn awaits (classifier, research,
\* synthesis) comes back, resolved or rejected, and the continuation of
\* handleSendMessage runs once processUserQuery has returned. Nothing is
\* assumed about the background generation, which no turn awaits.
TurnProgress(s) ==
  \/ \E kind \in ClassifierOutcomes, isNew \in BOOLEAN, name \in Names :
       ClassifyResolve(s, kind, isNew, name)
  \/ \E ok \in BOOLEAN, srcs \in SourceLists : ResearchResolve(s, ok, srcs)
  \/ \E now \in Nows : SynthResolve(s, now)
  \/ SynthReject(s)
  \/ \E now \in Nows : TurnPersist(s, now)

SpecSoloLive == SpecSolo /\ \A s \in Sessions : WF_vars(TurnProgress(s))

\* One study session in which the learner works with the Notebook agent: the
\* notes of the active topic are edited at any time, also while a turn runs.
NextNotebook ==
  \/ \E T \in MainNames, now \in Nows : Mount(T, now)
  \/ \E s \in Sessions : SlideLoaded(s)
  \/ \E m \in {"TUTOR", "NOTEBOOK"} : SetAgentMode(m)
  \/ \E content \in NotebookTexts : handleNotebookUpdate(content)
  \/ handleSendMessage
  \/ \E s \in Sessions, a \in ClassifierAnswers :
       ClassifyResolve(s, a.kind, a.isNew, a.name)
  \/ TurnStep

SpecNotebook == Init /\ [][NextNotebook]_vars

\* The study session left for the practice views and entered again: turns,
\* background generations and view loads overlap in any order. The next
\* message is typed after the pending generations have finished.
NextPractice ==
  \/ NoStaleTurn /\ Unmount
  \/ \E T \in MainNames, now \in Nows : Mount(T, now)
  \/ \E s \in Sessions : SlideLoaded(s)
  \/ jobs = {} /\ handleSendMessage
  \/ \E s \in Sessions, a \in ClassifierAnswers :
       ClassifyResolve(s, a.kind, a.isNew, a.name)
  \/ TurnStep
  \/ \E view \in PracticeViews, id \in 1..nextId : ViewLoad(view, id)
  \/ \E j \in jobs, ok \in BOOLEAN : ViewResolve(j, ok)

\* One study session, never left, in which the learner also moves through
\* the slides. The chat is disabled while the next slide is being prepared; a
\* turn that is in flight goes on.
NextLesson ==
  \/ \E T \in MainNames, now \in Nows : Mount(T, now)
  \/ \E s \in Sessions : SlideLoaded(s)
  \/ mounted # 0 /\ ~lesson[mounted].generatingNext /\ handleSendMessage
  \/ \E s \in Sessions, a \in ClassifierAnswers :
       ClassifyResolve(s, a.kind, a.isNew, a.name)
  \/ TurnStep
  \/ handleNextSlide
  \/ handlePrevSlide
  \/ \E s \in Sessions, summary \in Summaries : SummaryResolve(s, summary)
  \/ \E s \in Sessions, ok \in BOOLEAN : NextSlideResolve(s, ok)

SpecLesson == Init /\ [][NextLesson]_vars

SpecPractice == Init /\ [][NextPractice]_vars

\* The study session, with one message sent in it, left for the Flashcards view
\* and entered again; the turn or its background generation may still finish
\* while the view is on screen.
NextFlashcards ==
  \/ NoStaleTurn /\ Unmount
  \/ ~flashcardsView.mounted /\ \E T \in MainNames, now \in Nows : Mount(T, now)
  \/ \E s \in Sessions : SlideLoaded(s)
  \/ nTurns < 1 /\ handleSendMessage
  \/ \E s \in Sessions, a \in ClassifierAnswers :
       ClassifyResolve(s, a.kind, a.isNew, a.name)
  \/ TurnStep
  \/ FlashcardsStep

SpecFlashcards == Init /\ [][NextFlashcards]_vars

\* The same for the Quiz view.
NextQuiz ==
  \/ NoStaleTurn /\ Unmount
  \/ ~quizView.mounted /\ \E T \in MainNames, now \in Nows : Mount(T, now)
  \/ \E s \in Sessions : SlideLoaded(s)
  \/ nTurns < 1 /\ handleSendMessage
  \/ \E s \in Sessions, a \in ClassifierAnswers :
       ClassifyResolve(s, a.kind, a.isNew, a.name)
  \/ TurnStep
  \/ QuizStep

SpecQuiz == Init /\ [][NextQuiz]_vars

\* What the learner and the pending calls do in the exam view.
ExamStep ==
  \/ OpenExamMode
  \/ LeaveExamMode
  \/ \E id \in 1..nextId : handleTopicSelect(id)
  \/ proceedToConsent
  \/ backToTopicSelection
  \/ \E id \in 1..nextId : startExam(id)
  \/ \E j \in jobs, ok \in BOOLEAN, qs \in ExamLists : ExamResolve(j, ok, qs)
  \/ handleSubmit
  \/ \E ok \in BOOLEAN : GradeResolve(ok)
  \/ handleExit

\* The study session left for the exam view and entered again. The application
\* is locked while an exam is being generated, so the session is not entered
\* then; a turn or a background generation of the session may still finish.
NextExam ==
  \/ NoStaleTurn /\ Unmount
  \/ ~examMode.mounted /\ \E T \in MainNames, now \in Nows : Mount(T, now)
  \/ \E s \in Sessions : SlideLoaded(s)
  \/ jobs = {} /\ handleSendMessage
  \/ \E s \in Sessions, a \in ClassifierAnswers :
       ClassifyResolve(s, a.kind, a.isNew, a.name)
  \/ TurnStep
  \/ ExamStep

SpecExam == Init /\ [][NextExam]_vars

\* The whole application around one store: the study session with its chat,
\* notebook and slides, left for the practice views and the exam view and
\* entered again. The learner starts one thing at a time: a message, a slide
\* request or a view load is issued when nothing else is pending, and an exam
\* that has started is not submitted.
AppIdle ==
  /\ jobs = {}
  /\ \A s \in Sessions : ~InFlight(turn[s]) /\ lesson[s].pc = "none"

NextApp ==
  \/ NoStaleTurn /\ Unmount
  \/ ~examMode.mounted /\ \E T \in MainNames, now \in Nows : Mount(T, now)
  \/ \E s \in Sessions : SlideLoaded(s)
  \/ \E m \in {"TUTOR", "NOTEBOOK"} : SetAgentMode(m)
  \/ AppIdle /\ handleNotebookUpdate("notes")
  \/ AppIdle /\ nTurns < 1 /\ handleSendMessage
  \/ \E s \in Sessions, a \in ClassifierAnswers :
       ClassifyResolve(s, a.kind, a.isNew, a.name)
  \/ TurnStep
  \/ /\ AppIdle /\ mounted # 0
     /\ \/ lesson[mounted].currentSlideIndex < slides(lesson[mounted]) - 1
        \/ \A s \in Sessions : lesson[s].requests = 0
     /\ handleNextSlide
  \/ handlePrevSlide
  \/ \E s \in Sessions, summary \in {"s1"} : SummaryResolve(s, summary)
  \/ \E s \in Sessions, ok \in BOOLEAN : NextSlideResolve(s, ok)
  \/ /\ AppIdle /\ ~examMode.mounted
     /\ \E view \in PracticeViews, id \in 1..nextId : ViewLoad(view, id)
  \/ \E j \in jobs, ok \in BOOLEAN : ViewResolve(j, ok)
  \/ AppIdle /\ OpenExamMode
  \/ LeaveExamMode
  \/ \E id \in 1..nextId : handleTopicSelect(id)
  \/ proceedToConsent
  \/ \E id \in 1..nextId : startExam(id)
  \/ \E j \in jobs, ok \in BOOLEAN, qs \in ExamLists : ExamResolve(j, ok, qs)

SpecApp == Init /\ [][NextApp]_vars

\* The TopicDatabase driven directly through its public methods, in any order
\* and with any arguments.
\* Date.now() at calls that follow each other directly: the same millisecond
\* or a later one.
StoreNows == {clock, clock + 1}

\* The names handed to createTopic: enough of them for three topics.
StoreNames == Names \cup {"Chemistry"}

\* The TopicDatabase as a collection of topics: the calls that create, select
\* and list topics, in any order.
NextStore ==
  \/ \E name \in Names, now \in StoreNows : StoreReset(name, now)
  \/ \E name \in StoreNames, isMain \in BOOLEAN, now \in StoreNows :
       StoreCreateTopic(name, isMain, now)
  \/ \E id \in 1..nextId : StoreSetCurrentTopic(id)
  \/ StoreGetAllTopics

SpecStore == Init /\ [][NextStore]_vars

\* The TopicDatabase as the holder of what the topics contain: the calls that
\* write to and read from a topic by id, in any order, between resets and
\* topic creations.
NextStoreData ==
  \/ \E name \in MainNames, now \in Nows : StoreReset(name, now)
  \/ \E name \in Names, isMain \in BOOLEAN, now \in Nows :
       StoreCreateTopic(name, isMain, now)
  \/ \E id \in 1..nextId : StoreSetCurrentTopic(id)
  \/ \E id \in 1..nextId : StoreAddMessageToTopic(id)
  \/ \E id \in 1..nextId, summary \in Summaries : StoreAppendKnowledge(id, summary)
  \/ \E id \in 1..nextId : StoreAddFlashcardsToTopic(id)
  \/ \E id \in 1..nextId : StoreAddQuizQuestionsToTopic(id)
  \/ \E id \in 1..nextId : StoreSetExamQuestionsForTopic(id)
  \/ \E id \in 1..nextId : StoreUpdateNotebookContent(id)
  \/ \E state \in SessionStates : StoreSetSessionState(state)
  \/ StoreGetSessionState
  \/ \E op \in ReaderOps, id \in 1..nextId : StoreRead(op, id)

SpecStoreData == Init /\ [][NextStoreData]_vars


\* ------------------------------------------------------------- properties
\* The positions of the messages of turn k with role r in topic id of ts.
Holds(ts, id, r, k) ==
  IF has(ts, id)
  THEN {i \in DOMAIN get(ts, id).messages :
          get(ts, id).messages[i].role = r /\ get(ts, id).messages[i].turn = k}
  ELSE {}

\* The learner's message of turn k is the last user message of topic id.
LastUserMessage(ts, id, k) ==
  /\ Holds(ts, id, "user", k) # {}
  /\ \A i \in DOMAIN get(ts, id).messages :
       get(ts, id).messages[i].role = "user" => get(ts, id).messages[i].turn <= k

\* The topics of ts whose name equals N when case is ignored.
Named(ts, N) == {ts[i].id : i \in {j \in DOMAIN ts : toLowerCase(ts[j].name) = toLowerCase(N)}}

\* The topics that hold a flashcard or a quiz item made for turn k.
MaterialsOf(ts, k) ==
  {ts[i].id : i \in {j \in DOMAIN ts :
     \/ \E c \in DOMAIN ts[j].flashcards : ts[j].flashcards[c] = k
     \/ \E c \in DOMAIN ts[j].quizzes : ts[j].quizzes[c] = k}}

\* Session s finishes a turn in this step, through the success path.
Persists(s) == turn[s].pc = "returned" /\ turn'[s].pc = "done"

\* What C1 promises of the step in which session s persists a shift turn.
ShiftTurnPersisted(s) ==
  LET t == turn[s]
      P == t.preShiftTopicId
      N == t.analysis.topicName
  IN /\ LastUserMessage(topics', P, t.id)
     /\ Holds(topics', P, "model", t.id) = {}
     /\ \E n \in Named(topics', N) :
          /\ Holds(topics', n, "model", t.id) # {}
          /\ currentTopicId' = n

\* C1 (as amended): a turn started while topic P is active, classified as
\* isNewTopic with a name N that differs from P's name even when case is
\* ignored, and whose synthesis succeeds, leaves the learner's message as the
\* last user message of P, the reply in the topic named N and not in P, and the
\* topic named N active.
C1_ShiftTurnSplitsMessages ==
  [][\A s \in Sessions :
       (/\ Persists(s)
        /\ has(topics, turn[s].preShiftTopicId)
        /\ turn[s].analysis.isNewTopic
        /\ toLowerCase(turn[s].analysis.topicName)
             # toLowerCase(get(topics, turn[s].preShiftTopicId).name))
       => ShiftTurnPersisted(s)]_vars

\* C1 as the specification words it: N only has to differ from P's name as a
\* string.
C1_AsWritten ==
  [][\A s \in Sessions :
       (/\ Persists(s)
        /\ has(topics, turn[s].preShiftTopicId)
        /\ turn[s].analysis.isNewTopic
        /\ turn[s].analysis.topicName # get(topics, turn[s].preShiftTopicId).name)
       => ShiftTurnPersisted(s)]_vars

C1_Witness ==
  \E s \in Sessions :
    /\ turn[s].pc = "done" /\ turn[s].outcome = "ok" /\ turn[s].detected
    /\ turn[s].postShiftTopicId # turn[s].preShiftTopicId
    /\ currentTopicId = turn[s].postShiftTopicId
    /\ Holds(topics, turn[s].postShiftTopicId, "model", turn[s].id) # {}
    /\ LastUserMessage(topics, turn[s].preShiftTopicId, turn[s].id)

\* Case-insensitive uniqueness of the topic names of a store.
UniqueNames(ts) ==
  \A i, j \in DOMAIN ts :
    toLowerCase(ts[i].name) = toLowerCase(ts[j].name) => i = j

\* C2: no two topics of the store have names that are equal when case is
\* ignored, and a createTopic call with a name that equals an existing topic's
\* name when case is ignored returns that topic and adds nothing.
C2_UniqueNamesAndCreateOrGet ==
  /\ []UniqueNames(topics)
  /\ [][\A i \in DOMAIN topics :
          (/\ lastCall'.n # lastCall.n
           /\ lastCall'.op = "createTopic"
           /\ toLowerCase(topics[i].name) = toLowerCase(lastCall'.name))
          => (lastCall'.ret = topics[i].id /\ topics' = topics)]_vars

C2_Witness ==
  /\ lastCall.op = "createTopic"
  /\ ~lastCall.added
  /\ \E i \in DOMAIN topics :
       /\ topics[i].id = lastCall.ret
       /\ topics[i].name # lastCall.name
       /\ toLowerCase(topics[i].name) = toLowerCase(lastCall.name)

\* C3: once a reset has happened, exactly one topic of the store is the main
\* topic, and it carries the name given to the latest reset.
C3_OneMainTopic ==
  mainTopicName # NoName =>
    /\ Cardinality({i \in DOMAIN topics : topics[i].isMainTopic}) = 1
    /\ \A i \in DOMAIN topics : topics[i].isMainTopic => topics[i].name = mainTopicName

C3_Witness ==
  /\ nSessions > 1
  /\ mainTopicName = "Biology"
  /\ \E i \in DOMAIN topics : ~topics[i].isMainTopic /\ topics[i].flashcards # <<>>
  /\ \E s \in Sessions :
       /\ turn[s].pc = "done" /\ mounted # s
       /\ has(topics, turn[s].createdId)
       /\ ~has(topics, turn[s].preShiftTopicId)

\* C4: the active-topic pointer is unset or the id of a topic of the store.
C4_ActivePointerValid ==
  currentTopicId = NoId \/ has(topics, currentTopicId)

C4_Witness ==
  \E s \in Sessions :
    /\ turn[s].pc = "done" /\ turn[s].detected /\ mounted # s /\ mounted # 0
    /\ ~has(topics, turn[s].preShiftTopicId)
    /\ currentTopicId = turn[s].postShiftTopicId
    /\ turn[s].createdId = NoId
    /\ jobs # {}

\* C5: the flashcards and quiz items of a turn's enrichment job are found only
\* in the topic that is active after the turn's classification: on a shift from
\* P to N in N, and not in P.
C5_MaterialsGoToPostShiftTopic ==
  \A s \in Sessions :
    (turn[s].pc = "done" /\ turn[s].outcome = "ok")
    => MaterialsOf(topics, turn[s].id) \subseteq {turn[s].postShiftTopicId}

\* C6: when the synthesis call of a turn fails, the turn ends in the error
\* outcome with the learner's message stored in the topic that was active when
\* the turn started and no model message of the turn stored anywhere.
C6_SynthesisFailureKeepsUserMessage ==
  [][\A s \in Sessions :
       (turn[s].synth = "none" /\ turn'[s].synth = "failed")
       => /\ turn'[s].pc = "done" /\ turn'[s].outcome = "error"
          /\ ~session'[s].isChatLoading
          /\ Holds(topics', turn[s].preShiftTopicId, "user", turn[s].id) # {}
          /\ \A i \in DOMAIN topics' :
               Holds(topics', topics'[i].id, "model", turn[s].id) = {}]_vars

C6_Witness ==
  \E s \in Sessions :
    /\ turn[s].pc = "done" /\ turn[s].outcome = "error" /\ turn[s].synth = "failed"
    /\ Holds(topics, turn[s].preShiftTopicId, "user", turn[s].id) # {}
    /\ \A i \in DOMAIN topics : Holds(topics, topics[i].id, "model", turn[s].id) = {}

\* C7: a turn ends in the error outcome exactly when its synthesis call
\* failed; whatever the classifier, the research call and the enrichment call
\* did, a turn whose synthesis call succeeded returns a response and stores it.
C7_OnlySynthesisFailureIsAnError ==
  [][\A s \in Sessions :
       (turn[s].pc # "done" /\ turn'[s].pc = "done")
       => /\ turn'[s].outcome = "error" <=> turn'[s].synth = "failed"
          /\ turn'[s].outcome = "ok" <=> turn'[s].synth = "ok"
          /\ turn'[s].synth = "ok" =>
               \E i \in DOMAIN topics' :
                 Holds(topics', topics'[i].id, "model", turn[s].id) # {}]_vars

C7_Witness ==
  \E s \in Sessions :
    /\ turn[s].pc = "done" /\ turn[s].outcome = "ok" /\ turn[s].degraded
    /\ Holds(topics, turn[s].postShiftTopicId, "model", turn[s].id) # {}
    /\ MaterialsOf(topics, turn[s].id) = {}
    /\ \A j \in jobs : j.turn # turn[s].id

\* C8: a turn never waits for its enrichment call: when processUserQuery has
\* returned the call is still pending, and the rest of the turn can run.
C8_TurnDoesNotWaitForEnrichment ==
  \A s \in Sessions :
    /\ turn[s].pc # "enrich_wait"
    /\ (turn[s].pc = "returned" /\ turn[s].enrichIssued)
       => \E j \in jobs : j.turn = turn[s].id

C8_Witness ==
  \E s \in Sessions :
    /\ turn[s].pc = "done" /\ turn[s].outcome = "ok"
    /\ ~session[s].isChatLoading /\ mounted = s
    /\ Holds(topics, turn[s].postShiftTopicId, "model", turn[s].id) # {}
    /\ \E j \in jobs : j.turn = turn[s].id

\* C9: the steps of a turn happen in the order CLASSIFY, ROUTE, SYNTHESIZE,
\* PERSIST, ENRICH-scheduled: no producer runs before the classifier result,
\* no synthesis before the producer result, no reply is stored before the
\* synthesis result, and no enrichment is scheduled before the reply is stored.
C9_StrictStepOrder ==
  \A s \in Sessions :
    /\ turn[s].pc \in {"research", "synth"} => turn[s].classifier # "none"
    /\ (turn[s].pc = "synth" /\ turn[s].mode = "RESEARCH") => turn[s].research # "none"
    /\ (InFlight(turn[s]) /\ turn[s].synth = "none")
       => \A i \in DOMAIN topics : Holds(topics, topics[i].id, "model", turn[s].id) = {}
    /\ (InFlight(turn[s]) /\ \E j \in jobs : j.turn = turn[s].id)
       => \E i \in DOMAIN topics : Holds(topics, topics[i].id, "model", turn[s].id) # {}

\* What C10 promises of the step in which session s persists a detected shift.
ShiftHandled(s) ==
  LET t == turn[s]
      N == t.analysis.topicName
      old == Named(topics, N)
  IN IF old = {}
     THEN /\ Len(topics') = Len(topics) + 1
          /\ \A i \in DOMAIN topics : topics'[i].id = topics[i].id
          /\ topics'[Len(topics')].name = N
          /\ ~topics'[Len(topics')].isMainTopic
          /\ currentTopicId' = topics'[Len(topics')].id
          /\ Holds(topics', currentTopicId', "model", t.id) # {}
     ELSE /\ Len(topics') = Len(topics)
          /\ \A i \in DOMAIN topics : topics'[i].id = topics[i].id
          /\ currentTopicId' \in old
          /\ Holds(topics', currentTopicId', "model", t.id) # {}

\* C10: a turn that detects a shift to N creates exactly one non-main topic
\* named N and makes it active before the reply is stored when no topic has
\* that name (case ignored), and otherwise creates nothing and makes the
\* existing topic active; all of it in one step of the store.
C10_ShiftCreatesOrReuses ==
  [][\A s \in Sessions :
       (Persists(s) /\ IsShift(turn[s].analysis, turn[s].closureTopicName))
       => ShiftHandled(s)]_vars

C10_Witness ==
  \E s1, s2 \in Sessions :
    /\ s1 # s2
    /\ turn[s1].pc = "done" /\ turn[s1].detected /\ turn[s1].createdId # NoId
    /\ turn[s2].pc = "done" /\ turn[s2].detected /\ turn[s2].createdId = NoId
    /\ turn[s2].postShiftTopicId = turn[s1].createdId
    /\ turn[s2].id > turn[s1].id

\* The classifier answer of turn t is no shift for the orchestrator: it says
\* isNewTopic = false, or names the topic the orchestrator already holds.
NoShiftAnswer(t) ==
  /\ t.pc \in {"research", "synth", "returned"}
  /\ ~t.analysis.isNewTopic \/ t.analysis.topicName = t.classArg

\* C11: a turn whose classifier answer has isNewTopic = false, or isNewTopic =
\* true with the current topic name, keeps the store's active topic and the
\* orchestrator's topic name, creates no topic, adds no pivot note, and stores
\* the learner's message and the reply under the same topic.
C11_NoShiftTurnChangesNothing ==
  [][\A s \in Sessions :
       /\ NoShiftAnswer(turn'[s]) =>
            /\ ~turn'[s].systemInjection
            /\ session'[s].orch = turn'[s].classArg
       /\ NoShiftAnswer(turn[s]) =>
            /\ TopicIds(topics') = TopicIds(topics)
            /\ currentTopicId' = turn[s].preShiftTopicId
            /\ Persists(s) =>
                 /\ session'[s].orch = turn[s].classArg
                 /\ Holds(topics', turn[s].preShiftTopicId, "user", turn[s].id) # {}
                 /\ Holds(topics', turn[s].preShiftTopicId, "model", turn[s].id) # {}]_vars

\* C12: when the classifier call fails, analyzeTopicShift returns isNewTopic =
\* false with the currentTopic it was called with, and the turn goes on as a
\* no-shift turn: no step of it changes the active topic or creates a topic.
C12_ClassifierFailureIsNoShift ==
  [][\A s \in Sessions :
       /\ (turn[s].pc = "classify" /\ turn'[s].classifier = "failed") =>
            /\ ~turn'[s].analysis.isNewTopic
            /\ turn'[s].analysis.topicName = turn[s].classArg
            /\ turn'[s].pc \in {"research", "synth"}
       /\ (InFlight(turn[s]) /\ turn[s].classifier = "failed") =>
            /\ TopicIds(topics') = TopicIds(topics)
            /\ currentTopicId' = turn[s].preShiftTopicId
            /\ Persists(s) => ~turn'[s].detected /\ turn'[s].createdId = NoId]_vars

C12_Witness ==
  \E s \in Sessions :
    /\ turn[s].pc = "done" /\ turn[s].outcome = "ok" /\ turn[s].degraded
    /\ ~turn[s].detected /\ turn[s].createdId = NoId
    /\ turn[s].postShiftTopicId = turn[s].preShiftTopicId
    /\ currentTopicId = turn[s].preShiftTopicId
    /\ Len(topics) = 1

\* C13: whatever the classifier call came back with, an analyzeTopicShift
\* result with isNewTopic = false carries the currentTopic argument of the call
\* as its topicName.
C13_NoShiftResultNamesCurrentTopic ==
  \A s \in Sessions :
    (turn[s].classifier # "none" /\ ~turn[s].analysis.isNewTopic)
    => turn[s].analysis.topicName = turn[s].classArg

\* The response messages of turn k in the store.
Replies(ts, k) ==
  UNION {{ts[i].messages[j] : j \in Holds(ts, ts[i].id, "model", k)} : i \in DOMAIN ts}

\* C14: a failed research call does not end the turn: performResearch hands
\* back its degraded text with an empty source list, the turn goes on to
\* synthesis, and the response it then stores carries no sources.
C14_ResearchFailureDegrades ==
  [][\A s \in Sessions :
       /\ (turn[s].pc = "research" /\ turn'[s].research = "failed") =>
            /\ turn'[s].pc = "synth"
            /\ turn'[s].childAgentOutput = "research_unavailable"
            /\ turn'[s].sources = <<>>
       /\ (Persists(s) /\ turn[s].research = "failed") =>
            /\ Replies(topics', turn[s].id) # {}
            /\ \A m \in Replies(topics', turn[s].id) : m.sources = Absent]_vars

C14_Witness ==
  \E s \in Sessions :
    /\ turn[s].pc = "done" /\ turn[s].outcome = "ok" /\ turn[s].degraded
    /\ Replies(topics, turn[s].id) # {}
    /\ \A m \in Replies(topics, turn[s].id) : m.sources = Absent

\* C15: a failed enrichment call adds no flashcard and no quiz item to any
\* topic, leaves the turn and the session as they are and is not issued again;
\* an enrichment call is issued only by the step in which processUserQuery
\* returns, one for that turn.
C15_EnrichmentFailureIsSilent ==
  [][/\ \A j \in jobs :
          EnrichResolve(j, FALSE) =>
            /\ topics' = topics
            /\ turn' = turn /\ session' = session
            /\ jobs' = jobs \ {j}
     /\ jobs' \subseteq jobs
        \/ \E s \in Sessions :
             /\ turn[s].pc = "synth" /\ turn'[s].pc = "returned"
             /\ Cardinality(jobs' \ jobs) = 1
             /\ \A j \in jobs' \ jobs : j.turn = turn[s].id
             /\ \A j \in jobs : j.turn # turn[s].id]_vars

C15_Witness ==
  \E s \in Sessions :
    /\ turn[s].pc = "done" /\ turn[s].outcome = "ok" /\ turn[s].detected
    /\ ~session[s].isChatLoading
    /\ MaterialsOf(topics, turn[s].id) = {}
    /\ \A j \in jobs : j.turn # turn[s].id

\* The notebook content of the topic named N, empty when there is none.
NotebookOf(ts, N) ==
  IF getTopicByName(ts, N) = NoId THEN ""
  ELSE get(ts, getTopicByName(ts, N)).notebookContent

\* C16: in NOTEBOOK mode the notes handed to synthesis are read, once the
\* classifier has answered, from the topic that the answer makes the active
\* one: when a shift from P to N is detected they are the notes of N.
C16_NotebookReadFromPostShiftTopic ==
  [][\A s \in Sessions :
       (/\ turn[s].pc = "classify" /\ turn'[s].pc = "synth"
        /\ turn[s].mode = "NOTEBOOK"
        /\ IsShift(turn'[s].analysis, turn[s].classArg))
       => LET N == turn'[s].analysis.topicName IN
          /\ turn'[s].childAgentOutput = notebookOutput(NotebookOf(topics, N))
          /\ turn'[s].notes = notebookNotes(NotebookOf(topics, N))]_vars

\* The notebook content the Notebook agent finds in the store: that of the
\* active topic, empty when no topic is active.
ActiveNotebook ==
  IF getCurrentTopicId(topics, currentTopicId) = NoId THEN ""
  ELSE get(topics, getCurrentTopicId(topics, currentTopicId)).notebookContent

\* What C17 promises of the step in which the classifier answer of session s
\* arrives, with blank the notebook contents that count as no notes.
ProducerContext(s, blank) ==
  /\ turn[s].mode = "NOTEBOOK" =>
       IF ActiveNotebook \in blank
       THEN turn'[s].childAgentOutput = "no_notes"
       ELSE /\ turn'[s].childAgentOutput = "notebook"
            /\ turn'[s].notes.of = ActiveNotebook
            /\ turn'[s].notes.chars <= NotebookLimit
            /\ turn'[s].notes.chars <= length(ActiveNotebook)
            /\ turn'[s].notes.chars = NotebookLimit
               \/ turn'[s].notes.chars = length(ActiveNotebook)
  /\ turn[s].mode = "TUTOR" => turn'[s].childAgentOutput = "none"

\* C17 (as amended): in NOTEBOOK mode the producer context is the fixed 'no
\* notes uploaded yet' instruction exactly when the active topic's notebook
\* content is empty or white space only (or no topic is active); otherwise it
\* quotes the leading NotebookLimit characters of that content, or all of it
\* when it is shorter. In TUTOR mode the producer context is empty.
C17_ProducerContext ==
  [][\A s \in Sessions :
       (turn[s].pc = "classify" /\ turn'[s].pc = "synth")
       => ProducerContext(s, {"", " "})]_vars

\* C17 as the specification words it: only an empty notebook counts as no
\* notes.
C17_AsWritten ==
  [][\A s \in Sessions :
       (turn[s].pc = "classify" /\ turn'[s].pc = "synth")
       => ProducerContext(s, {""})]_vars

C17_Witness ==
  \E s \in Sessions :
    /\ turn[s].pc = "synth" /\ turn[s].mode = "NOTEBOOK"
    /\ turn[s].childAgentOutput = "notebook"
    /\ turn[s].notes.of = "long notes" /\ turn[s].notes.chars = NotebookLimit
    /\ ActiveNotebook = "long notes"

\* C18: the response message a turn stores has a sources field only on the
\* Research path: none in TUTOR and NOTEBOOK mode, and in RESEARCH mode the
\* list the Research producer returned, none when that list is empty.
C18_SourcesOnlyFromResearch ==
  [][\A s \in Sessions :
       Persists(s) =>
         /\ Replies(topics', turn[s].id) # {}
         /\ \A m \in Replies(topics', turn[s].id) :
              m.sources = IF turn[s].mode = "RESEARCH" /\ turn[s].sources # <<>>
                          THEN <<turn[s].sources>> ELSE Absent
         /\ turn[s].research = "failed" => turn[s].sources = <<>>]_vars

C18_Witness ==
  \E s \in Sessions :
    /\ turn[s].pc = "done" /\ turn[s].outcome = "ok"
    /\ \E m \in Replies(topics, turn[s].id) : m.sources = <<(<<"src">>)>>
    /\ \E i \in DOMAIN topics : \E j \in DOMAIN topics[i].messages :
         /\ topics[i].messages[j].role = "model"
         /\ topics[i].messages[j].turn \notin {0, turn[s].id}
         /\ topics[i].messages[j].sources = Absent

\* C19: from every store state a reset(name) call yields a store with exactly
\* one topic, named name, main and active, whose messages, flashcards, quizzes,
\* exam questions, notebook content and knowledge base are empty, and with no
\* session snapshot.
C19_ResetYieldsFreshStore ==
  [][(lastCall'.n # lastCall.n /\ lastCall'.op = "reset") =>
       /\ Len(topics') = 1
       /\ topics'[1].name = lastCall'.name
       /\ topics'[1].isMainTopic
       /\ currentTopicId' = topics'[1].id
       /\ topics'[1].messages = <<>>
       /\ topics'[1].flashcards = <<>> /\ topics'[1].quizzes = <<>>
       /\ topics'[1].examQuestions = <<>>
       /\ topics'[1].notebookContent = ""
       /\ topics'[1].knowledgeBase = <<>>
       /\ mainTopicName' = lastCall'.name
       /\ sessionState' = <<>>]_vars

C19_Witness ==
  /\ lastCall.op = "reset"
  /\ Len(topics) = 1
  /\ topics[1].id >= 3 /\ lastCall.n > topics[1].id
  /\ topics[1].name = lastCall.name /\ topics[1].isMainTopic
  /\ currentTopicId = topics[1].id
  /\ sessionState = <<>>

\* The mutating calls that take a topic id.
IdMutators ==
  {"setCurrentTopic", "addMessageToTopic", "appendKnowledge", "addFlashcardsToTopic",
   "addQuizQuestionsToTopic", "setExamQuestionsForTopic", "updateNotebookContent"}

\* C20: a mutating call with an id the store does not hold leaves the store as
\* it is, the active pointer included, and a reading call with such an id
\* returns the empty default.
C20_MissingIdIsNoOp ==
  [][(lastCall'.n # lastCall.n /\ ~has(topics, lastCall'.id)) =>
       /\ lastCall'.op \in IdMutators =>
            /\ topics' = topics /\ currentTopicId' = currentTopicId
            /\ mainTopicName' = mainTopicName /\ sessionState' = sessionState
       /\ lastCall'.op \in ReaderOps =>
            /\ topics' = topics /\ currentTopicId' = currentTopicId
            /\ lastCall'.op = "getKnowledgeBase" => lastCall'.value = <<(<<>>)>>
            /\ lastCall'.op = "getExamQuestionsForTopic" => lastCall'.value = <<(<<>>)>>
            /\ lastCall'.op = "getTopicContent" =>
                 lastCall'.value =
                   <<[flashcards |-> <<>>, quizzes |-> <<>>, examQuestions |-> <<>>,
                      notebookContent |-> "", knowledgeBase |-> <<>>]>>]_vars

C20_Witness ==
  /\ lastCall.op = "setCurrentTopic"
  /\ topics # <<>>
  /\ lastCall.id < topics[1].id
  /\ ~has(topics, lastCall.id)
  /\ currentTopicId = topics[1].id

\* The ids of the topics of ts that are main (main = TRUE) or not, in the
\* order in which the topics were created.
RECURSIVE CreatedInOrder(_, _)
CreatedInOrder(ts, main) ==
  IF ts = <<>> THEN <<>>
  ELSE LET front == CreatedInOrder(SubSeq(ts, 1, Len(ts) - 1), main)
       IN IF ts[Len(ts)].isMainTopic = main THEN Append(front, ts[Len(ts)].id)
          ELSE front

\* C21: getAllTopics returns every topic of the store exactly once; in a store
\* with one main topic it returns the main topic first and the others in the
\* order of their creation, which is also the ascending order of their
\* timestamps, whatever their names; the order is a function of the store.
C21_ListMainFirstThenCreationOrder ==
  [][(lastCall'.n # lastCall.n /\ lastCall'.op = "getAllTopics") =>
       LET order == lastCall'.value[1] IN
       /\ topics' = topics
       /\ Len(order) = Len(topics)
       /\ \A id \in TopicIds(topics) : Cardinality({i \in DOMAIN order : order[i] = id}) = 1
       /\ Cardinality({i \in DOMAIN topics : topics[i].isMainTopic}) <= 1 =>
            /\ order = CreatedInOrder(topics, TRUE) \o CreatedInOrder(topics, FALSE)
            /\ \A i, j \in DOMAIN order :
                 (i < j /\ ~get(topics, order[i]).isMainTopic)
                 => get(topics, order[i]).timestamp <= get(topics, order[j]).timestamp]_vars

C21_Witness ==
  /\ lastCall.op = "getAllTopics"
  /\ Len(topics) = 3
  /\ ~topics[1].isMainTopic /\ topics[2].isMainTopic /\ ~topics[3].isMainTopic
  /\ topics[1].timestamp = topics[3].timestamp
  /\ topics[1].name = "history" /\ topics[2].name = "Chemistry"
  /\ topics[3].name = "Biology"
  /\ lastCall.value[1] = <<topics[2].id, topics[1].id, topics[3].id>>

\* Sequence a is a prefix of sequence b.
IsPrefix(a, b) == Len(a) <= Len(b) /\ SubSeq(b, 1, Len(a)) = a

\* C22: an appendKnowledge call on an existing topic extends its knowledge
\* base by the separator and the text of the call, at the end; no other call
\* changes the knowledge base of a topic that stays in the store, so between
\* resets every earlier value is a prefix of every later one.
C22_KnowledgeBaseAppendOnly ==
  [][\A i \in DOMAIN topics :
       has(topics', topics[i].id) =>
         LET old == topics[i].knowledgeBase
             new == get(topics', topics[i].id).knowledgeBase
         IN /\ IsPrefix(old, new)
            /\ IF /\ lastCall'.n # lastCall.n /\ lastCall'.op = "appendKnowledge"
                  /\ lastCall'.id = topics[i].id
               THEN new = old \o <<Separator, lastCall'.value[1]>>
               ELSE new = old]_vars

C22_Witness ==
  /\ lastCall.op = "appendKnowledge"
  /\ \E i \in DOMAIN topics :
       /\ topics[i].knowledgeBase = <<Separator, "s2", Separator, "s1", Separator, "s1">>
       /\ lastCall.id = topics[i].id

\* C23: between two resets the message list of a topic only grows at its end:
\* in every step the list of a topic that stays in the store is a prefix of
\* what it is afterwards.
C23_MessagesAppendOnly ==
  [][\A i \in DOMAIN topics :
       has(topics', topics[i].id) =>
         IsPrefix(topics[i].messages, get(topics', topics[i].id).messages)]_vars

C23_Witness ==
  /\ Len(topics) = 2
  /\ Len(topics[1].messages) >= 4
  /\ topics[1].messages[2].role = "user" /\ topics[1].messages[2].turn = 1
  /\ topics[1].messages[3].role = "model" /\ topics[1].messages[3].turn = 1
  /\ topics[1].messages[4].role = "user" /\ topics[1].messages[4].turn = 2
  /\ topics[2].messages # <<>>

\* The step is a reset: the store now holds one topic, which is new.
ResetStep ==
  /\ Len(topics') = 1 /\ topics'[1].id = nextId /\ nextId' = nextId + 1
  /\ currentTopicId' = nextId /\ mainTopicName' = topics'[1].name

\* C24: a step that is not a reset removes no topic and changes the id, name,
\* creation timestamp and isMainTopic flag of no topic: the topics stay where
\* they are and new ones come after them.
C24_TopicsAccumulateFieldsConstant ==
  [][ResetStep
     \/ \A i \in DOMAIN topics :
          /\ i \in DOMAIN topics'
          /\ topics'[i].id = topics[i].id
          /\ topics'[i].name = topics[i].name
          /\ topics'[i].timestamp = topics[i].timestamp
          /\ topics'[i].isMainTopic = topics[i].isMainTopic]_vars

C24_Witness ==
  /\ lastCall.op = "createTopic" /\ ~lastCall.added /\ lastCall.value = <<TRUE>>
  /\ Len(topics) = 2
  /\ topics[1].isMainTopic /\ ~topics[2].isMainTopic
  /\ lastCall.ret = topics[2].id
  /\ topics[2].notebookContent = "notes"

\* What a step put at the end of a list.
Block(old, new) == SubSeq(new, Len(old) + 1, Len(new))

\* C25: whatever the order in which background generations, view loads and
\* turns finish, a step changes the flashcards and the quiz questions of a
\* topic only when a generation for that topic completes, and then the whole
\* generated list stands as one block at the end of what was stored: nothing
\* stored before is lost, moved or changed, and no other topic receives it.
C25_ListsAppendedWholeAtEnd ==
  [][/\ \A id \in 1..nextId :
          has(topics, id) /\ has(topics', id) =>
            /\ IsPrefix(get(topics, id).flashcards, get(topics', id).flashcards)
            /\ IsPrefix(get(topics, id).quizzes, get(topics', id).quizzes)
            /\ (\/ get(topics', id).flashcards # get(topics, id).flashcards
                \/ get(topics', id).quizzes # get(topics, id).quizzes)
                 => \E j \in jobs \ jobs' : j.targetTopicId = id
     /\ \A j \in jobs :
          has(topics, j.targetTopicId) =>
            /\ ViewResolve(j, TRUE) =>
                 Block(storedList(j.view, get(topics, j.targetTopicId)),
                       storedList(j.view, get(topics', j.targetTopicId)))
                   = generatedList(j.load)
            /\ EnrichResolve(j, TRUE) =>
                 /\ Block(get(topics, j.targetTopicId).flashcards,
                          get(topics', j.targetTopicId).flashcards)
                      = generateMicroStudySet(TRUE, j.turn).flashcards
                 /\ Block(get(topics, j.targetTopicId).quizzes,
                          get(topics', j.targetTopicId).quizzes)
                      = generateMicroStudySet(TRUE, j.turn).quiz]_vars

\* The flashcards of a topic hold the list of a view load, then the cards of
\* a turn's background generation, then the list of a second view load.
C25_Witness ==
  \E i \in DOMAIN topics :
    /\ topics[i].flashcards
         = generatedList(1) \o generateMicroStudySet(TRUE, 1).flashcards
             \o generatedList(2)
    /\ topics[i].quizzes # <<>>

\* C26: startExam for a topic with stored exam questions starts no generation
\* and changes nothing in the store; for a topic without stored questions it
\* starts exactly one generation, for that topic; and when a generation
\* resolves with questions, the stored list of its topic is exactly the
\* generated list. No other step changes the exam questions of a topic.
C26_ExamGeneratedOnceAndReplaced ==
  [][/\ \A id \in 1..nextId :
          startExam(id) =>
            /\ topics' = topics
            /\ IF getExamQuestionsForTopic(topics, id) # <<>>
               THEN jobs' = jobs
               ELSE /\ Cardinality(jobs' \ jobs) = 1
                    /\ jobs \subseteq jobs'
                    /\ \A j \in jobs' \ jobs : j.targetTopicId = id /\ j \in examJobs'
     /\ \A j \in examJobs, qs \in ExamLists :
          ExamResolve(j, TRUE, qs) /\ has(topics, j.targetTopicId) =>
            getExamQuestionsForTopic(topics', j.targetTopicId) = qs
     /\ \A id \in 1..nextId :
          (/\ has(topics, id) /\ has(topics', id)
           /\ get(topics', id).examQuestions # get(topics, id).examQuestions)
            => \E j \in examJobs \ jobs' : j.targetTopicId = id]_vars

\* An exam was generated and stored for a topic, and the exam was started
\* again for that topic: nothing is being generated.
C26_Witness ==
  /\ lastCall.op = "startExam" /\ ~lastCall.added
  /\ lastCall.value = <<"q-0", "q-1">>
  /\ getExamQuestionsForTopic(topics, lastCall.id) = lastCall.value
  /\ examJobs = {}

\* C27: setSessionState stores exactly the snapshot it is given, whatever was
\* stored before; reset leaves no snapshot; no other call changes what is
\* stored; and getSessionState returns what is stored. So getSessionState
\* returns the snapshot of the latest setSessionState since the last reset,
\* and none when there was no such call.
C27_SessionStateIsLastWrite ==
  [][/\ lastCall'.op = "setSessionState" => sessionState' = lastCall'.value
     /\ lastCall'.op = "reset" => sessionState' = <<>>
     /\ lastCall'.op \notin {"setSessionState", "reset"} => sessionState' = sessionState
     /\ lastCall'.op = "getSessionState" => lastCall'.value = sessionState]_vars

\* After at least three earlier calls, getSessionState returned a snapshot.
C27_Witness ==
  /\ lastCall.op = "getSessionState"
  /\ lastCall.value = <<[currentTopicName |-> "Biology", agentMode |-> "NOTEBOOK"]>>
  /\ lastCall.n >= 4

\* C28: while a turn of a StudySession is in flight its loading flag is set,
\* and a turn is started only in the session on screen, only while that
\* session has no turn in flight and its loading flag is clear.
C28_OneTurnInFlightPerSession ==
  [][/\ \A s \in Sessions : InFlight(turn[s]) => session[s].isChatLoading
     /\ nTurns' # nTurns =>
          /\ mounted # 0
          /\ ~InFlight(turn[mounted])
          /\ ~session[mounted].isChatLoading
          /\ InFlight(turn'[mounted]) /\ turn'[mounted].id = nTurns'
          /\ session'[mounted].isChatLoading]_vars

\* The second turn of one session is in flight after its first turn finished.
C28_Witness ==
  /\ nSessions = 1 /\ mounted = 1
  /\ turn[1].id = 2 /\ turn[1].pc = "synth"
  /\ session[1].isChatLoading
  /\ \E i \in DOMAIN topics : Holds(topics, topics[i].id, "model", 1) # {}

\* The turn numbered k is in flight / has finished with an outcome.
TurnInFlight(k) == \E s \in Sessions : turn[s].id = k /\ InFlight(turn[s])

TurnCompleted(k) ==
  \E s \in Sessions :
    /\ turn[s].id = k /\ turn[s].pc = "done"
    /\ turn[s].outcome \in {"ok", "error"}
    /\ ~session[s].isChatLoading

\* C29: when every call a turn awaits comes back, every started turn
\* finishes with the success or the error outcome and the loading flag of
\* its session is clear then, whatever failed on the way and whether or not
\* the background generation ever comes back.
C29_EveryTurnCompletes ==
  \A k \in 1..MaxTurns : TurnInFlight(k) ~> TurnCompleted(k)

\* A turn whose classifier call and research call failed has finished; its
\* background generation has not come back.
C29_Witness ==
  \E s \in Sessions :
    /\ turn[s].pc = "done" /\ turn[s].outcome = "ok" /\ turn[s].degraded
    /\ ~session[s].isChatLoading
    /\ \E j \in jobs : j.turn = turn[s].id

\* The step is initSession of a new StudySession taking the restore branch /
\* the reset branch.
RestoreStep ==
  /\ nSessions' = nSessions + 1
  /\ mainTopicName = session'[nSessions'].topic /\ sessionState # <<>>

NewSessionStep ==
  /\ nSessions' = nSessions + 1
  /\ ~(mainTopicName = session'[nSessions'].topic /\ sessionState # <<>>)

\* The store holds the main topic T and nothing else, with these messages.
OnlyMainTopic(ts, T, msgs) ==
  /\ Len(ts) = 1
  /\ ts[1].name = T /\ ts[1].isMainTopic
  /\ ts[1].messages = msgs

\* C30: initSession for T with main topic name T and a stored snapshot leaves
\* the topics and the active pointer as they are and creates the orchestrator
\* with the current topic name of the snapshot; otherwise it resets the store,
\* and when its first slide has loaded the store holds only the main topic T
\* with the intro message as its single message.
C30_InitRestoresOrResets ==
  [][/\ RestoreStep =>
          /\ topics' = topics /\ currentTopicId' = currentTopicId
          /\ mainTopicName' = mainTopicName
          /\ session'[nSessions'].orch = sessionState[1].currentTopicName
     /\ NewSessionStep =>
          /\ OnlyMainTopic(topics', session'[nSessions'].topic, <<>>)
          /\ currentTopicId' = topics'[1].id
          /\ mainTopicName' = session'[nSessions'].topic
     /\ \A s \in Sessions :
          (session[s].status = "loading" /\ session'[s].status = "ready")
            => OnlyMainTopic(topics', session[s].topic, <<IntroMsg>>)]_vars

\* The summaries held by the knowledge bases of the store.
SummariesIn(ts) ==
  UNION {{<<i, k>> : k \in {j \in DOMAIN ts[i].knowledgeBase :
                               ts[i].knowledgeBase[j] = Separator}} :
         i \in DOMAIN ts}

\* In this step the summary requested by session s returns.
SummaryStep(s) == lesson[s].pc = "summarize" /\ lesson'[s].pc = "generate"

RECURSIVE SlidesMade(_)
SlidesMade(S) ==
  IF S = {} THEN 0
  ELSE LET s == CHOOSE x \in S : TRUE IN
       lesson[s].generated + (IF lesson[s].pc = "generate" THEN 1 ELSE 0)
         + SlidesMade(S \ {s})

ActiveTopicName ==
  IF getCurrentTopicId(topics, currentTopicId) = NoId THEN NoName
  ELSE get(topics, getCurrentTopicId(topics, currentTopicId)).name

\* C32: when a turn of the session on screen has ended, with either outcome,
\* the orchestrator's topic name, the session's currentTopicName and the name
\* of the store's active topic are equal up to case.
C32_NamesAgreeAfterTurn ==
  \A s \in Sessions :
    (s = mounted /\ turn[s].pc = "done") =>
      /\ toLowerCase(session[s].orch) = toLowerCase(session[s].currentTopicName)
      /\ toLowerCase(session[s].currentTopicName) = toLowerCase(ActiveTopicName)

\* The turn was started before the last reset: the topic that got its user
\* message is not in the store any more.
StartedBeforeReset(t) ==
  InFlight(t) /\ t.preShiftTopicId # NoId /\ ~has(topics, t.preShiftTopicId)

\* C33: a step of a turn that was started before the last reset changes no
\* topic of the store, adds none and does not move the active pointer.
C33_StaleTurnLeavesStore ==
  [][\A s \in Sessions :
       (StartedBeforeReset(turn[s]) /\ turn'[s] # turn[s]) =>
         topics' = topics /\ currentTopicId' = currentTopicId]_vars

\* C34: a background generation whose topic id is no longer in the store
\* changes nothing in the store when it completes, with or without materials.
\* A job is scheduled for a topic that is in the store, and an id that left
\* the store with a reset never comes back, so this is every job scheduled
\* before a reset and completing after it.
C34_StaleEnrichmentIsNoOp ==
  [][/\ \A j \in jobs, ok \in BOOLEAN :
          (j.turn # 0 /\ ~has(topics, j.targetTopicId) /\ EnrichResolve(j, ok)) =>
            topics' = topics /\ currentTopicId' = currentTopicId
     /\ \A j \in jobs' \ jobs : has(topics', j.targetTopicId)
     /\ \A j \in jobs \cap jobs' :
          ~has(topics, j.targetTopicId) => ~has(topics', j.targetTopicId)]_vars

\* A turn ended in a topic that a reset has removed since; its background
\* generation is not pending any more and the store holds nothing of it.
C34_Witness ==
  \E s \in Sessions :
    /\ turn[s].pc = "done" /\ turn[s].outcome = "ok"
    /\ turn[s].postShiftTopicId # NoId /\ ~has(topics, turn[s].postShiftTopicId)
    /\ \A j \in jobs : j.turn # turn[s].id
    /\ MaterialsOf(topics, turn[s].id) = {}
    /\ mounted # 0 /\ mounted # s /\ session[mounted].status = "ready"

\* The number of messages stored over all topics of ts, and the messages of
\* turn k with role r among them as (topic, position) pairs.
RECURSIVE TotalMessages(_)
TotalMessages(ts) ==
  IF ts = <<>> THEN 0 ELSE Len(Head(ts).messages) + TotalMessages(Tail(ts))

Stored(ts, r, k) ==
  {p \in UNION {{<<i, j>> : j \in DOMAIN ts[i].messages} : i \in DOMAIN ts} :
     ts[p[1]].messages[p[2]].role = r /\ ts[p[1]].messages[p[2]].turn = k}

\* The store accounts for every message of the session once: the intro, the
\* user message of each turn started, at most one reply per turn, none for
\* the turn in flight or failed, one for the turn that just succeeded.
MessagesAccounted ==
  \A s \in Sessions :
    session[s].status = "ready" =>
      /\ Cardinality(Stored(topics, "model", 0)) = 1
      /\ \A k \in 1..nTurns : /\ Cardinality(Stored(topics, "user", k)) = 1
                              /\ Cardinality(Stored(topics, "model", k)) <= 1
      /\ TotalMessages(topics) =
           1 + nTurns + Cardinality({k \in 1..nTurns : Stored(topics, "model", k) # {}})
      /\ turn[s].pc # "none" =>
           (Stored(topics, "model", turn[s].id) # {}
              <=> (turn[s].pc = "done" /\ turn[s].outcome = "ok"))

\* C35: within one session that is never reset, the store gains one message
\* when a turn starts and one when a turn ends in success, and none in any
\* other step; with the intro stored when the session becomes ready, the
\* messages over all topics number 1 + turns started + turns succeeded, each
\* stored once.
C35_MessageCount ==
  [][/\ MessagesAccounted /\ MessagesAccounted'
     /\ \A s \in Sessions :
          session[s].status = "ready" =>
            TotalMessages(topics') = TotalMessages(topics)
              + (IF nTurns' # nTurns THEN 1 ELSE 0)
              + (IF turn[s].pc # "done" /\ turn'[s].pc = "done"
                    /\ turn'[s].outcome = "ok" THEN 1 ELSE 0)]_vars

\* Two turns started, the first failed and the second succeeded after a
\* topic shift: four messages, spread over two topics.
C35_Witness ==
  \E s \in Sessions :
    /\ nTurns = 2 /\ turn[s].pc = "done" /\ turn[s].outcome = "ok" /\ turn[s].id = 2
    /\ Stored(topics, "model", 1) = {}
    /\ Len(topics) >= 2 /\ TotalMessages(topics) = 4
    /\ \E i \in DOMAIN topics : Len(topics[i].messages) = 1

\* The step of a turn in which handleSendMessage handles a detected shift.
ShiftStep ==
  \E s \in Sessions, now \in Nows : TurnPersist(s, now) /\ turn'[s].detected

\* C36: the active-topic pointer changes only when the store is reset and when
\* a turn handles a shift it detected. Selecting a topic in the Flashcards,
\* Quiz or Exam view, generating practice material or an exam, editing the
\* notebook, moving through the slides, saving a slide summary and completing
\* a background generation all leave it as it is.
C36_PointerFrame ==
  [][/\ currentTopicId' # currentTopicId => ResetStep \/ ShiftStep
     /\ \A j \in jobs, ok \in BOOLEAN, qs \in ExamLists :
          (EnrichResolve(j, ok) \/ ViewResolve(j, ok) \/ ExamResolve(j, ok, qs))
            => currentTopicId' = currentTopicId
     /\ \A id \in 1..nextId :
          (\/ \E view \in PracticeViews : ViewLoad(view, id)
           \/ handleTopicSelect(id) \/ startExam(id))
            => currentTopicId' = currentTopicId
     /\ (\/ handleNotebookUpdate("notes") \/ handleNextSlide \/ handlePrevSlide
         \/ \E s \in Sessions : SummaryResolve(s, "s1"))
            => currentTopicId' = currentTopicId]_vars

\* A turn moved the pointer to a topic it created; since then the main topic,
\* which is not the active one, received generated flashcards and a generated
\* exam, and the active topic a slide summary and its notes; the background
\* generation of the turn has completed.
C36_Witness ==
  /\ Len(topics) = 2 /\ currentTopicId = topics[2].id
  /\ \E s \in Sessions : turn[s].pc = "done" /\ turn[s].detected
  /\ topics[1].isMainTopic
  /\ \E i \in DOMAIN topics[1].flashcards : topics[1].flashcards[i] < 0
  /\ topics[1].examQuestions # <<>>
  /\ topics[2].knowledgeBase # <<>>
  /\ topics[2].notebookContent = "notes"
  /\ jobs = {} /\ MaterialsOf(topics, 1) # {}

\* The lock is on exactly while ExamMode is on screen and is loading an exam
\* or past the consent; an exam is loading exactly while its generation call
\* is pending.
LockMatchesExam ==
  /\ isExamActive <=>
       /\ examMode.mounted
       /\ examMode.step \in {"EXAM", "RESULTS"} \/ examMode.loading
  /\ examMode.loading <=> examJobs # {}

\* C37: the app is locked exactly while ExamMode is generating an exam or is
\* in its EXAM or RESULTS step: the lock is off after the exit, after a failed
\* load and once ExamMode is unmounted. While it is on, no step puts another
\* view on screen or changes the topic of the app.
C37_ExamLock ==
  [][/\ LockMatchesExam /\ LockMatchesExam'
     /\ handleExit => ~isExamActive'
     /\ LeaveExamMode => ~isExamActive'
     /\ \A j \in examJobs, qs \in ExamLists : ExamResolve(j, FALSE, qs) => ~isExamActive'
     /\ isExamActive =>
          /\ mounted' = mounted
          /\ examMode'.mounted
          /\ mainTopicName' = mainTopicName]_vars

\* The exam was graded and its results are on screen, the app still locked,
\* while a turn of the study session that was left is still in flight.
C37_Witness ==
  /\ isExamActive
  /\ examMode.step = "RESULTS" /\ examMode.feedback
  /\ \E i \in DOMAIN topics : topics[i].examQuestions # <<>>
  /\ \E s \in Sessions : InFlight(turn[s])

\* C38: in the Flashcards view, while the list of cards is not empty, the
\* current index is a position of the list.
C38_IndexInRange ==
  flashcardsView.mounted /\ cardsOf(flashcardsView, topics) # <<>> =>
    /\ flashcardsView.currentIndex >= 0
    /\ flashcardsView.currentIndex <= Len(cardsOf(flashcardsView, topics)) - 1

\* The questions answered so far in the run of the quiz on screen.
answeredSoFar == quizView.currentQIndex + (IF quizView.isAnswered THEN 1 ELSE 0)

\* C39: in the Quiz view, while the list of questions is not empty, the score
\* is at most the number of questions answered so far, which is at most the
\* length of the list, and the current index is a position of the list.
C39_QuizProgress ==
  quizView.mounted /\ questionsOf(quizView, topics) # <<>> =>
    /\ 0 <= quizView.score /\ quizView.score <= answeredSoFar
    /\ answeredSoFar <= Len(questionsOf(quizView, topics))
    /\ 0 <= quizView.currentQIndex
    /\ quizView.currentQIndex < Len(questionsOf(quizView, topics))

====
